---------------------------- MODULE Spec2Model ----------------------------
(***************************************************************************)
(* A state-machine model of github.com/pascaldekloe/websocket: the         *)
(* connection state (Conn), the low-level frame pipe (Read/Write), the     *)
(* high-level transceiver (Send, SendStream, Receive) and the close latch  *)
(* (SendClose, setClose).                                                  *)
(*                                                                         *)
(* Bytes are integers 0..255.  The transport (net.Conn) is modelled as two *)
(* byte streams: wire (bytes the peer has sent and the library has not yet *)
(* read) and out (bytes the library has written).  A transport call either *)
(* transfers bytes or fails; a transport write may transfer a prefix and   *)
(* then fail.                                                              *)
(***************************************************************************)
EXTENDS Integers, Sequences, FiniteSets, TLC

VARIABLES
    c,          \* the Conn struct (websocket.go:1005-1041)
    writeMutex, \* Conn.writeMutex: "free" or the holder
    wire,       \* transport input not yet read
    split,      \* whether the transport may deliver less than it has
    peer,       \* the frames the peer sends in this run
    wireEnd,    \* what follows the input: "eof" or "open" (peer is silent)
    out,        \* transport output, all bytes accepted so far
    faults,     \* number of transport faults injected so far
    cl,         \* the goroutines that invoke SendClose
    snd,        \* the goroutine that invokes Send
    sw,         \* the goroutine that writes to the io.WriteCloser of SendStream
    lw,         \* the goroutine that uses the low-level SetWriteMode/Write
    rd,         \* the goroutine that invokes Receive
    wlog,       \* history: the last invocation of Conn.write
    clog,       \* history: the invocations of SendClose that returned
    tlog        \* history: the latch before and after the last timeout

vars == <<c, writeMutex, wire, split, peer, wireEnd, out, faults, cl, snd, sw, lw, rd, wlog, clog, tlog>>

----------------------------------------------------------------------------
(* Opcodes, websocket.go:14-47 *)
Continuation == 0
Text == 1
Binary == 2
Close == 8
Ping == 9
Pong == 10

(* Status codes, websocket.go:50-76 *)
NormalClose == 1000
GoingAway == 1001
ProtocolError == 1002
CannotAccept == 1003
NoStatusCode == 1005
AbnormalClose == 1006
Policy == 1008
TooBig == 1009

(* first (frame) byte layout, websocket.go:967-972 *)
opcodeMask == 15
ctrlFlag == 8
reservedMask == 112
finalFlag == 128

(* second (frame) byte layout, websocket.go:975-978 *)
sizeMask == 127
maskFlag == 128

(* websocket.go:980-984 *)
statusCodeSetFlag == 65536
statusCodeMask == 65535

\* len(c.readBuf), websocket.go:1037
readBufLen == 131

----------------------------------------------------------------------------
(* Bounds of the model *)
NClosers == 2       \* concurrent SendClose invocations
MaxFaults == 1      \* transport faults injected in one run
MaxSends == 1       \* Send invocations in one run
MaxWrites == 1      \* low-level Write invocations in one run
MaxReceives == 1    \* Receive invocations in one run
MaxReads == 3       \* low-level Read invocations in one run
MaxBuf == 4         \* the largest buffer Receive and Read are given
HeadStops == 12     \* the leading bytes of a transport write where it can stop

----------------------------------------------------------------------------
\* AcceptV13, websocket.go:992: the opcodes 0, 1, 2, 8, 9 and 10
AcceptV13 == 1799

(* Errors.  A ClosedError carries its status code. *)
Err(kind) == [kind |-> kind, code |-> 0]
nil == Err("nil")
ClosedError(code) == [kind |-> "closed", code |-> code]
errRetry == Err("retry")

\* transport errors: net.Error with Timeout(), net.Error with Temporary()
\* only, and any other error
TransportErrors == {Err("timeout"), Err("temporary"), Err("fatal")}

\* e.(net.Error) && e.Timeout(), websocket.go:226-227
IsTimeout(e) == e.kind = "timeout"
\* !ok || !e.Temporary(), websocket.go:231; ClosedError.Temporary() is false
IsFatal(e) == e.kind \notin {"timeout", "temporary"}

Min(a, b) == IF a < b THEN a ELSE b

\* big-endian encodings of binary.BigEndian
BE16(n) == <<(n \div 256) % 256, n % 256>>
BE64(n) == <<0, 0, 0, 0, (n \div 16777216) % 256, (n \div 65536) % 256,
             (n \div 256) % 256, n % 256>>

----------------------------------------------------------------------------
(* The close latch *)

\* atomic.CompareAndSwapUint32(&c.statusCode, 0, uint32(statusCode|statusCodeSetFlag))
\* for status codes below 2^16, where | statusCodeSetFlag adds the flag
\* c: the Conn afterwards, ok: whether the swap took place
casStore(conn, statusCode) ==
    [c |-> [conn EXCEPT !.statusCode = statusCode + statusCodeSetFlag], ok |-> TRUE]
casClose(conn, statusCode) ==
    IF conn.statusCode = 0
    THEN [c |-> [conn EXCEPT !.statusCode = statusCode + statusCodeSetFlag], ok |-> TRUE]
    ELSE [c |-> conn, ok |-> FALSE]

(* Conn.setClose, websocket.go:1043-1045 *)
setClose(conn, statusCode) == casClose(conn, statusCode).c

closeErrorRaw(conn) ==
    IF conn.statusCode # 0 THEN ClosedError(conn.statusCode) ELSE nil
closeError(conn) ==
    IF conn.statusCode # 0
    THEN ClosedError(conn.statusCode % (statusCodeMask + 1))
    ELSE nil

\* The Close frame SendClose composes in writeBuf, websocket.go:134-144
CloseFrameCoded(statusCode, reason) ==
    <<Close + finalFlag, Len(reason) + 2>> \o BE16(statusCode) \o reason
CloseFrame(statusCode, reason) ==
    IF statusCode \in {NoStatusCode, AbnormalClose, 1015}
    THEN <<Close + finalFlag, 0>>
    ELSE <<Close + finalFlag, Len(reason) + 2>> \o BE16(statusCode) \o reason


\* the guard of the best-effort notification, websocket.go:133
NoPendingAlways(conn) == TRUE
NoPending(conn) == conn.writeBufN = 0 /\ conn.writePayloadN = 0

----------------------------------------------------------------------------
(* The transport write: Conn.Write(b) when the transport accepts k more    *)
(* bytes and then fails with e.                                            *)
TW(b, k, e) ==
    [n |-> IF k < 0 THEN 0 ELSE Min(k, Len(b)),
     err |-> IF k < Len(b) THEN e ELSE nil]

(* SetWriteMode, websocket.go:1081-1090 *)
SetWriteModeFragment(opcode, final) == opcode % ctrlFlag
SetWriteModeRaw(opcode, final) == IF final THEN opcode + finalFlag ELSE opcode
SetWriteMode(opcode, final) ==
    IF final
    THEN (opcode % (opcodeMask + 1)) + finalFlag
    ELSE opcode % ctrlFlag

(* Conn.write, the pending frame, websocket.go:1108-1132 *)
writePending(conn, p, k, e) ==
    IF conn.writePayloadN # Len(p)
    THEN [c |-> conn, n |-> 0, err |-> errRetry, sent |-> <<>>]
    ELSE
      LET hdr == IF conn.writeBufN > 0
                 THEN SubSeq(conn.writeBuf, 1, conn.writeBufN) ELSE <<>>
          r1 == TW(hdr, k, e)
          bufN1 == conn.writeBufN - r1.n
      IN IF conn.writeBufN > 0 /\ r1.err # nil
         THEN [c |-> [conn EXCEPT !.writeBufN = bufN1,
                                  !.writeBuf = SubSeq(hdr, r1.n + 1, Len(hdr))],
               n |-> 0, err |-> r1.err, sent |-> SubSeq(hdr, 1, r1.n)]
         ELSE
           LET c1 == [conn EXCEPT !.writeBufN = bufN1, !.writeBuf = <<>>]
               r2 == TW(p, k - Len(hdr), e)
           IN IF conn.writePayloadN > 0
              THEN [c |-> [c1 EXCEPT !.writePayloadN = conn.writePayloadN - r2.n],
                    n |-> r2.n, err |-> r2.err,
                    sent |-> hdr \o SubSeq(p, 1, r2.n)]
              ELSE [c |-> c1, n |-> 0, err |-> nil, sent |-> hdr]

(* Conn.write, a new frame: the header, websocket.go:1134-1153 *)
frameHeader16(head, size) ==
    IF size < 126 THEN <<head % 256, size>>
    ELSE <<head % 256, 126>> \o BE16(size)
frameHeader(head, size) ==
    IF size < 126 THEN <<head % 256, size>>
    ELSE IF size < 65536 THEN <<head % 256, 126>> \o BE16(size)
    ELSE <<head % 256, 127>> \o BE64(size)

(* Conn.write, a new frame, websocket.go:1134-1176 *)
writeFrame(conn, p, k, e) ==
    LET small == Len(p) < 126
        hdr == frameHeader(conn.writeHead, Len(p))
        buf0 == IF small THEN hdr \o p ELSE hdr
        bufN0 == Len(buf0)
        payN0 == IF small THEN 0 ELSE Len(p)
        r1 == TW(buf0, k, e)
        bufN1 == bufN0 - r1.n
    IN IF r1.err # nil
       THEN \* shift out written bytes; undo payload in first TCP package
         LET bufN2 == bufN1 - (Len(p) - payN0)
         IN [c |-> [conn EXCEPT !.writeBuf = IF bufN2 > 0
                                             THEN SubSeq(buf0, r1.n + 1, bufN0)
                                             ELSE <<>>,
                                !.writeBufN = bufN2,
                                !.writePayloadN = payN0],
             n |-> IF bufN2 >= 0 THEN 0 ELSE -bufN2,
             err |-> r1.err, sent |-> SubSeq(buf0, 1, r1.n)]
       ELSE IF payN0 <= 0
       THEN [c |-> [conn EXCEPT !.writeBuf = <<>>, !.writeBufN = bufN1,
                                !.writePayloadN = payN0],
             n |-> Len(p), err |-> nil, sent |-> buf0]
       ELSE
         LET r2 == TW(p, k - bufN0, e)
         IN [c |-> [conn EXCEPT !.writeBuf = <<>>, !.writeBufN = bufN1,
                                !.writePayloadN = payN0 - r2.n],
             n |-> Len(p) - (payN0 - r2.n), err |-> r2.err,
             sent |-> buf0 \o SubSeq(p, 1, r2.n)]

(* Conn.write, websocket.go:1103-1176 *)
writeUnchecked(conn, p, k, e) ==
    IF conn.writeBufN > 0 \/ conn.writePayloadN > 0
    THEN writePending(conn, p, k, e)
    ELSE writeFrame(conn, p, k, e)
write(conn, p, k, e) ==
    IF closeError(conn) # nil
    THEN [c |-> conn, n |-> 0, err |-> closeError(conn), sent |-> <<>>]
    ELSE IF conn.writeBufN > 0 \/ conn.writePayloadN > 0
    THEN writePending(conn, p, k, e)
    ELSE writeFrame(conn, p, k, e)

\* The number of bytes Conn.write hands to the transport when nothing fails
writeTotal(conn, p) == Len(write(conn, p, 1000000, nil).sent)

\* The outcomes of the transport for a call that hands it total bytes: all
\* of them, or (while faults remain) k < total of them and then an error
\* The transport can stop after any byte; of a long write the model follows
\* the stops in its first HeadStops bytes and before its last two bytes
Stops(total) == {k \in 0..(total - 1) : k < HeadStops \/ k >= total - 2}
\* With faults above MaxFaults the transport is jammed: every write that
\* hands it a byte accepts none and fails with a temporary error
Jammed == faults > MaxFaults
Outcomes(total) ==
    IF Jammed /\ total > 0 THEN {[k |-> 0, e |-> Err("temporary")]}
    ELSE
    {[k |-> total, e |-> nil]} \cup
    (IF faults < MaxFaults
     THEN {[k |-> k, e |-> e] : k \in Stops(total), e \in TransportErrors}
     ELSE {})

(* writeWithRetry after Conn.write returned (n, err): the error handling   *)
(* of the loop, websocket.go:225-243                                       *)
RetryNoLatch(conn, err) == conn
RetryLatch(conn, err) ==
    IF err # nil /\ IsTimeout(err) THEN setClose(conn, Policy) ELSE conn


----------------------------------------------------------------------------
(* Bytes *)
RECURSIVE XorBits(_, _, _)
XorBits(a, b, bits) ==
    IF bits = 0 THEN 0
    ELSE (((a % 2) + (b % 2)) % 2) + 2 * XorBits(a \div 2, b \div 2, bits - 1)
Xor(a, b) == XorBits(a, b, 8)

\* the ASCII text of the reasons the library passes to SendClose
ReasonReservedBit == <<114,101,115,101,114,118,101,100,32,98,105,116,32,115,101,116>>
ReasonNoMask == <<110,111,32,109,97,115,107>>
ReasonOpcode == <<111,112,99,111,100,101,32>>
ReasonCtrlNotFinal == <<99,111,110,116,114,111,108,32,102,114,97,109,101,32,110,111,116,32,102,105,110,97,108>>
ReasonCtrlSize == <<99,111,110,116,114,111,108,32,102,114,97,109,101,32,115,105,122,101>>
ReasonWordSize == <<119,111,114,100,32,115,105,122,101,32,101,120,99,101,101,100,101,100>>
ReasonReadTimeout == <<114,101,97,100,32,116,105,109,101,111,117,116>>
ReasonEOF == <<69,79,70>>
ReasonUnexpectedEOF == <<117,110,101,120,112,101,99,116,101,100,32,69,79,70>>

(* unicode/utf8.Valid: the accept ranges of the second byte and the size   *)
(* of the sequence a first byte starts; size 0 is an invalid first byte.   *)
utf8Size(b) ==
    IF b < 128 THEN 1
    ELSE IF b >= 194 /\ b <= 223 THEN 2
    ELSE IF b >= 224 /\ b <= 239 THEN 3
    ELSE IF b >= 240 /\ b <= 244 THEN 4
    ELSE 0
utf8Lo(b) == IF b = 224 THEN 160 ELSE IF b = 240 THEN 144 ELSE 128
utf8Hi(b) == IF b = 237 THEN 159 ELSE IF b = 244 THEN 143 ELSE 191
RECURSIVE utf8ValidFrom(_, _)
utf8ValidFrom(p, i) ==
    IF i > Len(p) THEN TRUE
    ELSE LET size == utf8Size(p[i])
         IN /\ size # 0
            /\ i + size - 1 <= Len(p)
            /\ size >= 2 => (p[i + 1] >= utf8Lo(p[i]) /\ p[i + 1] <= utf8Hi(p[i]))
            /\ \A j \in (i + 2)..(i + size - 1) : p[j] >= 128 /\ p[j] <= 191
            /\ utf8ValidFrom(p, i + size)
utf8ValidAlways(p) == TRUE
utf8Valid(p) == utf8ValidFrom(p, 1)

----------------------------------------------------------------------------
\* SendClose drops a reason that does not fit or is not UTF-8,
\* websocket.go:126-129
CloseReason(reason) ==
    IF Len(reason) > 123 \/ ~utf8Valid(reason) THEN <<>> ELSE reason

----------------------------------------------------------------------------
(* Conn.unmaskN, websocket.go:1358-1379.  c.mask holds the key as a        *)
(* big-endian word repeated twice; the model keeps its four bytes.         *)
(* byte(c.mask >> ((^c.maskI & 3) * 8)) is byte maskI mod 4 of the key.    *)
maskByte(mask, maskI) == mask[(maskI % 4) + 1]

\* the byte-wise loop: each byte advances maskI
unmaskBytes(mask, maskI, p) ==
    [i \in 1..Len(p) |-> Xor(p[i], maskByte(mask, maskI + i - 1))]

\* the word loop: bits.RotateLeft64(c.mask, 8*maskI) puts byte maskI mod 4
\* of the key first; a block of 8 does not advance maskI
unmaskWordsUnrotated(mask, maskI, p, blocks) ==
    [i \in 1..(8 * blocks) |-> Xor(p[i], maskByte(mask, (i - 1) % 8))]
unmaskWords(mask, maskI, p, blocks) ==
    [i \in 1..(8 * blocks) |-> Xor(p[i], maskByte(mask, maskI + ((i - 1) % 8)))]

\* the unmasked bytes and the new maskI
unmaskN(mask, maskI, p) ==
    IF Len(p) < 8
    THEN [p |-> unmaskBytes(mask, maskI, p), maskI |-> maskI + Len(p)]
    ELSE LET blocks == Len(p) \div 8
             tail == SubSeq(p, 8 * blocks + 1, Len(p))
         IN [p |-> unmaskWords(mask, maskI, p, blocks)
                     \o unmaskBytes(mask, maskI, tail),
             maskI |-> maskI + Len(tail)]

(* Conn.ReadMode, websocket.go:1180-1185 *)
ReadModeOpcode(conn) == conn.readHead % (opcodeMask + 1)
ReadModeFinalHead(conn) == (conn.readHead \div finalFlag) % 2 = 1
ReadModeFinal(conn) ==
    (conn.readHead \div finalFlag) % 2 = 1 /\ conn.readPayloadN = 0

Zeros(len) == [i \in 1..len |-> 0]

\* b with the bytes at (0-based) offset off replaced by q
Patch(b, off, q) ==
    [i \in 1..Len(b) |-> IF i > off /\ i <= off + Len(q) THEN q[i - off] ELSE b[i]]


----------------------------------------------------------------------------
(* The goroutine that reads.  Receive, readWithRetry, Conn.read, nextFrame, *)
(* ensureBufN, gotCtrl and SendClose run as one sequential program; r is    *)
(* its frame stack and r.pc its position.  Micro is one step of the code    *)
(* at a position that needs neither the transport nor the write mutex.      *)
(* A state of the program is s = [c |-> the Conn, r |-> the locals].        *)

\* positions where the goroutine waits: for a call (idle), for the
\* transport (net, netpay, pong_retry) or for writeMutex (sc_lock, pong_lock)
Waiting == {"idle", "net", "netpay", "sc_lock", "pong_lock", "pong_retry"}

\* the io.Reader of ReceiveStream, websocket.go:321-348, 400: kind is its
\* type (readEOF, textReader or messageReader; "none" before ReceiveStream
\* returned one), err, tail and tailN are its fields.  got is history: the
\* bytes its Read invocations returned so far.
NoReader == [kind |-> "none", err |-> nil, tail |-> <<0, 0, 0>>, tailN |-> 0,
             got |-> <<>>]

RLocals ==
    [pc |-> "idle", buf |-> <<>>, n |-> 0, opcode |-> 0, final |-> FALSE,
     err |-> nil, wret |-> "none", off |-> 0, accum |-> FALSE,
     wn |-> 0, wop |-> 0, wfin |-> FALSE, werr |-> nil,
     pl |-> 0, cn |-> 0, cerr |-> nil, need |-> 0, cont |-> "none",
     scCode |-> 0, scReason |-> <<>>, scRet |-> "none",
     scErr |-> nil, pong |-> <<>>, pongN |-> 0,
     low |-> FALSE, sc0 |-> 0, fresh |-> FALSE,
     res |-> [opcode |-> 0, final |-> FALSE, n |-> 0, err |-> nil], calls |-> 0,
     tr |-> NoReader]

At(s, pc) == [s EXCEPT !.r.pc = pc]

\* a call of SendClose(code, reason) that returns to position ret
CallSendClose(s, code, reason, ret) ==
    [s EXCEPT !.r.pc = "sc_cas", !.r.scCode = code, !.r.scReason = reason,
              !.r.scRet = ret]

\* a call of ensureBufN(need), continued at cont
CallEnsure(s, need, cont) ==
    [s EXCEPT !.r.pc = "ens", !.r.need = need, !.r.cont = cont]

\* Receive returns (opcode, n, err): the locals are dropped.  low, sc0 and
\* fresh are history: the kind of the call, and the latch and whether no
\* frame was in progress when it was made.
Return(s, opcode, n, err) ==
    [s EXCEPT !.r = [RLocals EXCEPT !.buf = s.r.buf,
                                    !.calls = s.r.calls + 1,
                                    !.low = s.r.low, !.sc0 = s.r.sc0,
                                    !.fresh = s.r.fresh,
                                    !.res = [opcode |-> opcode, final |-> s.r.final,
                                             n |-> n, err |-> err]]]

\* the low-level Read returns (n, err); the result holds what ReadMode
\* reports afterwards
ReturnRead(s) ==
    [s EXCEPT !.r = [RLocals EXCEPT !.buf = s.r.buf,
                                    !.calls = s.r.calls + 1,
                                    !.low = s.r.low, !.sc0 = s.r.sc0,
                                    !.fresh = s.r.fresh,
                                    !.res = [opcode |-> ReadModeOpcode(s.c),
                                             final |-> ReadModeFinal(s.c),
                                             n |-> s.r.cn, err |-> s.r.cerr]]]

(* nextFrame, move read ahead to beginning of buffer, websocket.go:1238-1242 *)
compact(conn) ==
    IF conn.readBufDone # 0
    THEN [conn EXCEPT !.readBuf = SubSeq(conn.readBuf, conn.readBufDone + 1, conn.readBufN),
                      !.readBufN = conn.readBufN - conn.readBufDone,
                      !.readBufDone = 0]
    ELSE conn

\* c.Accept&(1<<(head&opcodeMask)) == 0
AcceptBitAll(accept, opcode) == 1
AcceptBit(accept, opcode) == (accept \div (2 ^ opcode)) % 2

\* the reason of a CannotAccept close, websocket.go:1265-1271
OpcodeReason(opcode) ==
    IF opcode < 10 THEN ReasonOpcode \o <<48 + opcode>>
    ELSE ReasonOpcode \o <<49, 48 + (opcode \div 10)>>

\* head&reservedMask != 0, websocket.go:1253
reservedNever(head) == FALSE
reservedSet(head) == (head \div 16) % 8 # 0
\* head&finalFlag == 0 of a control frame, websocket.go:1307
ctrlNotFinalNever(head) == FALSE
ctrlNotFinal(head) == head < finalFlag

(* nextFrame after ensureBufN(6), websocket.go:1249-1315 *)
nextFrameHead(s) ==
    LET head == s.c.readBuf[1]
        head2 == s.c.readBuf[2]
        size == head2 % (sizeMask + 1)
        opcode == head % (opcodeMask + 1)
        s1 == [s EXCEPT !.c.readHead = head]
        s2 == [s1 EXCEPT !.c.readPayloadN = size]
    IN IF reservedSet(head)
       THEN CallSendClose(s1, ProtocolError, ReasonReservedBit, "nf_err")
       ELSE IF head2 < maskFlag
       THEN CallSendClose(s2, ProtocolError, ReasonNoMask, "nf_err")
       ELSE IF s.c.Accept # 0 /\ AcceptBit(s.c.Accept, opcode) = 0
       THEN CallSendClose(s2, CannotAccept, OpcodeReason(opcode), "nf_err")
       ELSE IF (head \div ctrlFlag) % 2 = 0
       THEN \* non-control frame
            IF size = 126 THEN CallEnsure(s2, 8, "nf_d126")
            ELSE IF size = 127 THEN CallEnsure(s2, 14, "nf_d127")
            ELSE [s2 EXCEPT !.c.mask = SubSeq(s.c.readBuf, 3, 6),
                            !.c.readBufDone = 6, !.c.maskI = 0,
                            !.r.pc = "rd_copy"]
       ELSE \* control frame
            IF ctrlNotFinal(head)
            THEN CallSendClose(s2, ProtocolError, ReasonCtrlNotFinal, "nf_err")
            ELSE IF size > 125
            THEN CallSendClose(s2, ProtocolError, ReasonCtrlSize, "nf_err")
            ELSE CallEnsure(s2, size + 6, "nf_ctrl")

(* nextFrame, the 16-bit payload length, websocket.go:1281-1287 *)
nextFrame16(s) ==
    [s EXCEPT !.c.readPayloadN = 256 * s.c.readBuf[3] + s.c.readBuf[4],
              !.c.mask = SubSeq(s.c.readBuf, 5, 8),
              !.c.readBufDone = 8, !.c.maskI = 0, !.r.pc = "rd_copy"]

(* nextFrame, the 64-bit payload length, websocket.go:1288-1298.  The peer *)
(* of the model sends lengths below 2^31 or with the top bit set.          *)
nextFrame64(s) ==
    IF s.c.readBuf[3] >= 128
    THEN CallSendClose(s, TooBig, ReasonWordSize, "nf_err")
    ELSE [s EXCEPT !.c.readPayloadN = 16777216 * s.c.readBuf[7] + 65536 * s.c.readBuf[8]
                                      + 256 * s.c.readBuf[9] + s.c.readBuf[10],
                   !.c.mask = SubSeq(s.c.readBuf, 11, 14),
                   !.c.readBufDone = 14, !.c.maskI = 0, !.r.pc = "rd_copy"]

\* uint(byteOrder.Uint16(c.readBuf[6:8])) of a Close frame, websocket.go:1329
closeStatusLittle(p) == p[1] + 256 * p[2]
closeStatus(p) == 256 * p[1] + p[2]

(* nextFrame, a control frame in the buffer, websocket.go:1318-1332 *)
nextFrameCtrl(s) ==
    LET size == s.c.readPayloadN
        key == SubSeq(s.c.readBuf, 3, 6)
        um == unmaskN(key, 0, SubSeq(s.c.readBuf, 7, 6 + size))
        s1 == [s EXCEPT !.c.mask = key, !.c.maskI = um.maskI,
                        !.c.readBufDone = 6,
                        !.c.readBuf = Patch(s.c.readBuf, 6, um.p)]
    IN IF s.c.readHead % (opcodeMask + 1) = Close
       THEN IF size < 2
            THEN CallSendClose(s1, NoStatusCode, <<>>, "nf_err")
            ELSE CallSendClose(s1, closeStatus(um.p),
                               SubSeq(um.p, 3, size), "nf_err")
       ELSE At(s1, "rd_copy")

(* Conn.read, limit read to payload size and use buffer remainder,          *)
(* websocket.go:1207-1220                                                   *)
readCopy(s) ==
    LET pl == Min(Len(s.r.buf) - s.r.off, s.c.readPayloadN)
        n == Min(pl, s.c.readBufN - s.c.readBufDone)
        s1 == [s EXCEPT !.r.buf = Patch(s.r.buf, s.r.off,
                                        SubSeq(s.c.readBuf, s.c.readBufDone + 1,
                                               s.c.readBufDone + n)),
                        !.c.readBufDone = s.c.readBufDone + n,
                        !.r.pl = pl, !.r.cn = n, !.r.cerr = nil]
    IN IF n < pl THEN At(s1, "netpay") ELSE At(s1, "rd_fin")

(* Conn.read, register result and deal with payload, websocket.go:1221-1234 *)
readFinish(s) ==
    LET um == unmaskN(s.c.mask, s.c.maskI,
                      SubSeq(s.r.buf, s.r.off + 1, s.r.off + s.r.cn))
        left == s.c.readPayloadN - s.r.cn
        s1 == [s EXCEPT !.c.readPayloadN = left, !.c.maskI = um.maskI,
                        !.r.buf = Patch(s.r.buf, s.r.off, um.p)]
    IN IF s.r.cerr.kind = "EOF"
       THEN IF left # 0
            THEN CallSendClose([s1 EXCEPT !.r.cerr = Err("UnexpectedEOF")],
                               AbnormalClose, ReasonUnexpectedEOF, "rd_ret")
            ELSE CallSendClose(s1, AbnormalClose, ReasonEOF, "rd_ret")
       ELSE At(s1, "rd_ret")

(* Conn.read on entry, websocket.go:1197-1205 *)
readEnterKeep(s) ==
    IF s.c.readPayloadN = 0 THEN At(s, "nf_start") ELSE At(s, "rd_copy")
readEnter(s) ==
    IF s.c.readPayloadN = 0
    THEN At(s, "nf_start")
    ELSE \* set opcode to Continue/zero
         [s EXCEPT !.c.readHead = ((s.c.readHead \div finalFlag) % 2) * finalFlag,
                   !.r.pc = "rd_copy"]

(* readWithRetry after Conn.Read returned, websocket.go:412-440 *)
retryCheck(s) ==
    IF s.r.werr # nil
    THEN IF IsTimeout(s.r.werr)
         THEN CallSendClose(s, Policy, ReasonReadTimeout, "rwr_ret")
         ELSE IF IsFatal(s.r.werr) THEN At(s, "rwr_ret")
         ELSE [s EXCEPT !.r.accum = TRUE, !.r.pc = "rd_enter"]
    ELSE LET opcode == ReadModeOpcode(s.c)
             s1 == [s EXCEPT !.r.wop = opcode, !.r.wfin = ReadModeFinal(s.c)]
         IN IF (opcode \div ctrlFlag) % 2 = 0
            THEN At(s1, "rwr_ret") ELSE At(s1, "gc")

(* gotCtrl, flush payload, websocket.go:473-477 *)
flushCtrl(s) ==
    [s EXCEPT !.c.readBufDone = s.c.readBufDone + s.c.readPayloadN,
              !.c.readPayloadN = 0, !.r.pc = "rwr_loop",
              !.r.pong = <<>>, !.r.pongN = 0]

(* gotCtrl, reuse read buffer for pong frame, websocket.go:445-452 *)
\* readBuf is an array: the model keeps its first readBufN bytes and reads
\* what lies beyond them as zero
pongFrameOf(conn, readN) ==
    LET size == readN + conn.readPayloadN
        b == Patch(conn.readBuf, 4, <<Pong + finalFlag, size % 256>>)
        array == b \o Zeros(readBufLen - Len(b))
    IN [readBuf |-> b, frame |-> SubSeq(array, 5, 6 + size)]
gotCtrl(s) ==
    IF s.r.wop = Ping
    THEN LET pf == pongFrameOf(s.c, s.r.wn)
         IN [s EXCEPT !.c.readBuf = pf.readBuf, !.r.pong = pf.frame,
                      !.r.pongN = 0, !.r.pc = "pong_lock"]
    ELSE flushCtrl(s)

(* SendClose, the compare-and-swap, websocket.go:120-129 *)
sendCloseCas(s) ==
    LET cas == casClose(s.c, s.r.scCode)
    IN IF ~cas.ok
       THEN [s EXCEPT !.r.scErr = closeError(s.c), !.r.pc = "sc_done"]
       ELSE [s EXCEPT !.c = cas.c, !.r.scReason = CloseReason(s.r.scReason),
                      !.r.pc = "sc_lock"]

(* Receive between two calls of readWithRetry, websocket.go:267-274 *)
receiveLoopNoClose(s) ==
    IF s.r.final THEN At(s, "rcv_utf")
    ELSE IF s.r.n >= Len(s.r.buf)
    THEN At(s, "rcv_ovf")
    ELSE [s EXCEPT !.r.off = s.r.n, !.r.wret = "rcv2ret", !.r.pc = "rwr_loop",
                   !.r.wn = 0, !.r.wop = 0, !.r.wfin = FALSE, !.r.werr = nil]
receiveLoop(s) ==
    IF s.r.final THEN At(s, "rcv_utf")
    ELSE IF s.r.n >= Len(s.r.buf)
    THEN CallSendClose(s, TooBig, <<>>, "rcv_ovf")
    ELSE [s EXCEPT !.r.off = s.r.n, !.r.wret = "rcv2ret", !.r.pc = "rwr_loop",
                   !.r.wn = 0, !.r.wop = 0, !.r.wfin = FALSE, !.r.werr = nil]

\* ReceiveStream or the Read of its reader returns: the locals are dropped,
\* the reader tr is kept and its history records the n bytes returned
ReturnStream(s, tr, opcode, n, err) ==
    [s EXCEPT !.r = [RLocals EXCEPT !.buf = s.r.buf,
                                    !.calls = s.r.calls + 1,
                                    !.low = s.r.low, !.sc0 = s.r.sc0,
                                    !.fresh = s.r.fresh,
                                    !.res = [opcode |-> opcode, final |-> s.r.wfin,
                                             n |-> n, err |-> err],
                                    !.tr = [tr EXCEPT !.got = tr.got \o SubSeq(s.r.buf, 1, n)]]]

\* a call of readWithRetry(buf[off:], ...) that returns to position ret
CallRetry(s, off, ret) ==
    [s EXCEPT !.r.off = off, !.r.wret = ret, !.r.pc = "rwr_loop",
              !.r.wn = 0, !.r.wop = 0, !.r.wfin = FALSE, !.r.werr = nil]

(* ReceiveStream after readWithRetry(nil, idleTimeout), websocket.go:299-318 *)
receiveStream(s) ==
    IF s.r.werr # nil
    THEN ReturnStream(s, s.r.tr, 0, 0, s.r.werr)
    ELSE LET kind == IF s.r.wfin THEN "eof"
                     ELSE IF s.r.wop = Text THEN "text" ELSE "message"
         IN ReturnStream(s, [s.r.tr EXCEPT !.kind = kind], s.r.wop, 0, nil)

(* messageReader.Read after readWithRetry, websocket.go:332-339 *)
messageRead(s) ==
    IF s.r.wfin
    THEN ReturnStream(s, [s.r.tr EXCEPT !.err = Err("EOF")], s.r.wop, s.r.wn,
                      IF s.r.werr = nil THEN Err("EOF") ELSE s.r.werr)
    ELSE ReturnStream(s, s.r.tr, s.r.wop, s.r.wn, s.r.werr)

(* textReader.Read, start with remainder, websocket.go:355-365.  p[n:] of   *)
(* a p shorter than the remainder is a slice out of range: the call panics *)
textStart(s) ==
    LET n == s.r.tr.tailN
        p == [i \in 1..Len(s.r.buf) |-> IF i <= n THEN s.r.tr.tail[i] ELSE s.r.buf[i]]
    IN IF n > Len(p)
       THEN ReturnStream([s EXCEPT !.r.buf = p], [s.r.tr EXCEPT !.kind = "dead"],
                         0, 0, Err("panic"))
       ELSE CallRetry([s EXCEPT !.r.buf = p, !.r.n = n], n, "tr_ret")

\* the scan for the last byte b of p[:n] with b&0xc0 != 0xc0, or -1,
\* websocket.go:375-380; the index counts from 0
textEnd(p, n) ==
    LET stops == {e \in 0..(n - 1) : p[e + 1] < 192}
    IN IF stops = {} THEN -1 ELSE CHOOSE e \in stops : \A d \in stops : d <= e

\* utf8.Valid(p[:n]), the first validation of textReader.Read
textValid(p, n) == utf8Valid(SubSeq(p, 1, n))

(* textReader.Read after readWithRetry, websocket.go:366-397 *)
textRead(s) ==
    LET p == s.r.buf
        n == s.r.n + s.r.wn
        final == s.r.wfin
        end == textEnd(p, n)
        atEOF == [s.r.tr EXCEPT !.err = Err("EOF")]
        errEOF == IF s.r.werr = nil THEN Err("EOF") ELSE s.r.werr
    IN IF ~textValid(p, n)
       THEN IF final THEN ReturnStream(s, s.r.tr, s.r.wop, n, Err("utf8"))
            ELSE IF end + 4 >= n THEN ReturnStream(s, s.r.tr, s.r.wop, n, Err("utf8"))
            ELSE IF end < 0
            THEN \* p[:end] is a slice out of range
                 ReturnStream(s, [s.r.tr EXCEPT !.kind = "dead"], 0, 0, Err("panic"))
            ELSE IF ~utf8Valid(SubSeq(p, 1, end))
            THEN ReturnStream(s, s.r.tr, s.r.wop, n, Err("utf8"))
            ELSE \* r.tailN = copy(r.tail[:], p[end:]); n = end
                 ReturnStream(s, [s.r.tr EXCEPT !.tail = SubSeq(p, end + 1, end + 3),
                                                !.tailN = 3],
                              s.r.wop, end, s.r.werr)
       ELSE IF final THEN ReturnStream(s, atEOF, s.r.wop, n, errEOF)
       ELSE ReturnStream(s, s.r.tr, s.r.wop, n, s.r.werr)

(* Read of the io.Reader of ReceiveStream, on entry, websocket.go:327-331,  *)
(* 350-353, 402-404                                                         *)
streamRead(s) ==
    IF s.r.tr.kind = "eof" THEN ReturnStream(s, s.r.tr, 0, 0, Err("EOF"))
    ELSE IF s.r.tr.err # nil THEN ReturnStream(s, s.r.tr, 0, 0, s.r.tr.err)
    ELSE IF s.r.tr.kind = "text" THEN textStart(s)
    ELSE CallRetry(s, 0, "mr_ret")

Micro(s) ==
    CASE s.r.pc = "rcv_start" ->
           [s EXCEPT !.r.off = 0, !.r.wret = "rcv1ret", !.r.pc = "rwr_loop"]
      [] s.r.pc = "rcv1ret" ->
           \* n, opcode, final, err := c.readWithRetry(buf, idleTimeout)
           IF s.r.werr # nil
           THEN Return(s, s.r.wop, 0, s.r.werr)
           ELSE [s EXCEPT !.r.n = s.r.wn, !.r.opcode = s.r.wop,
                          !.r.final = s.r.wfin, !.r.err = s.r.werr,
                          !.r.pc = "rcv_loop"]
      [] s.r.pc = "rcv_loop" -> receiveLoop(s)
      [] s.r.pc = "rcv2ret" ->
           \* more, _, final, err = c.readWithRetry(buf[n:], wireTimeout)
           IF s.r.werr # nil
           THEN Return(s, s.r.opcode, s.r.n + s.r.wn, s.r.werr)
           ELSE [s EXCEPT !.r.n = s.r.n + s.r.wn, !.r.final = s.r.wfin,
                          !.r.pc = "rcv_loop"]
      \* ReceiveStream and its reader
      [] s.r.pc = "rs_start" -> CallRetry(s, 0, "rs_ret")
      [] s.r.pc = "rs_ret" -> receiveStream(s)
      [] s.r.pc = "sr_start" -> streamRead(s)
      [] s.r.pc = "mr_ret" -> messageRead(s)
      [] s.r.pc = "tr_ret" -> textRead(s)
      [] s.r.pc = "rcv_ovf" -> Return(s, s.r.opcode, s.r.n, Err("overflow"))
      [] s.r.pc = "rcv_utf" ->
           IF s.r.opcode = Text /\ ~utf8Valid(SubSeq(s.r.buf, 1, s.r.n))
           THEN Return(s, s.r.opcode, s.r.n, Err("utf8"))
           ELSE Return(s, s.r.opcode, s.r.n, nil)
      \* readWithRetry; its named results keep their values across the loop
      [] s.r.pc = "rwr_loop" -> [s EXCEPT !.r.accum = FALSE, !.r.pc = "rd_enter"]
      [] s.r.pc = "rwr_chk" -> retryCheck(s)
      [] s.r.pc = "rwr_ret" -> At(s, s.r.wret)
      [] s.r.pc = "gc" -> gotCtrl(s)
      \* Conn.read
      [] s.r.pc = "rd_enter" -> readEnter(s)
      [] s.r.pc = "rd_copy" -> readCopy(s)
      [] s.r.pc = "rd_fin" -> readFinish(s)
      [] s.r.pc = "rd_ret" ->
           \* n, err = c.Read(p), or more, err = c.Read(p); n += more
           IF s.r.low THEN ReturnRead(s) ELSE
           [s EXCEPT !.r.wn = IF s.r.accum THEN s.r.wn + s.r.cn ELSE s.r.cn,
                     !.r.werr = s.r.cerr, !.r.pc = "rwr_chk"]
      \* nextFrame and ensureBufN
      [] s.r.pc = "nf_start" -> CallEnsure([s EXCEPT !.c = compact(s.c)], 6, "nf_head")
      [] s.r.pc = "ens" ->
           IF s.c.readBufN < s.r.need THEN At(s, "net") ELSE At(s, s.r.cont)
      [] s.r.pc = "nf_head" -> nextFrameHead(s)
      [] s.r.pc = "nf_d126" -> nextFrame16(s)
      [] s.r.pc = "nf_d127" -> nextFrame64(s)
      [] s.r.pc = "nf_ctrl" -> nextFrameCtrl(s)
      [] s.r.pc = "nf_err" ->
           \* return c.SendClose(...): Conn.read returns 0, err
           [s EXCEPT !.r.cn = 0, !.r.cerr = s.r.scErr, !.r.pc = "rd_ret"]
      \* SendClose
      [] s.r.pc = "sc_cas" -> sendCloseCas(s)
      [] s.r.pc = "sc_done" -> At(s, s.r.scRet)

\* the code runs until it waits
RECURSIVE Run(_)
Run(s) == IF s.r.pc \in Waiting THEN s ELSE Run(Micro(s))


----------------------------------------------------------------------------
(* The peer.  A client frame as RFC 6455 section 5.2 lays it out: the      *)
(* payload is XORed with the key, byte i with key byte i mod 4.            *)
PeerMask(key, payload) ==
    [i \in 1..Len(payload) |-> Xor(payload[i], key[((i - 1) % 4) + 1])]
PeerFrame(head, key, payload) ==
    IF Len(payload) < 126
    THEN <<head, maskFlag + Len(payload)>> \o key \o PeerMask(key, payload)
    ELSE <<head, maskFlag + 126>> \o BE16(Len(payload)) \o key \o PeerMask(key, payload)
\* the same frame sent without a mask
BareFrame(head, payload) == <<head, Len(payload)>> \o payload

Key0 == <<0, 0, 0, 0>>
Key1 == <<18, 52, 86, 120>>
Key2 == <<255, 1, 128, 64>>

\* a frame of a script; the key <<>> stands for a frame without a mask,
\* and short is the number of its last bytes that the peer never sends
F(head, key, payload) ==
    [head |-> head, key |-> key, payload |-> payload, short |-> 0]
WholeFrame(f) ==
    IF f.key = <<>> THEN BareFrame(f.head, f.payload)
    ELSE PeerFrame(f.head, f.key, f.payload)
EncodeFrame(f) == SubSeq(WholeFrame(f), 1, Len(WholeFrame(f)) - f.short)
RECURSIVE Encode(_)
Encode(fs) == IF fs = <<>> THEN <<>> ELSE EncodeFrame(Head(fs)) \o Encode(Tail(fs))

\* what the peer sends in a run of Spec
SpecWires ==
    { <<<<>>, "eof">>,
      <<<<>>, "open">>,
      <<<<F(Text, Key1, <<104>>), F(Continuation + finalFlag, Key0, <<105>>)>>, "open">>,
      <<<<F(Close + finalFlag, Key1, <<3, 243, 98>>)>>, "eof">>,
      <<<<F(Text + finalFlag, <<>>, <<104, 105, 33, 33>>)>>, "open">> }

\* what the peer sends in a run of SpecRecv: one message, in fragments and
\* with Pings in between
RecvScripts ==
    { <<F(Text + finalFlag, Key1, <<104, 105>>)>>,
      <<F(Text, Key1, <<104>>), F(Ping + finalFlag, Key1, <<46>>),
        F(Continuation + finalFlag, Key2, <<105, 33>>)>>,
      <<F(Binary, Key2, <<1, 2>>), F(Continuation, Key1, <<3>>),
        F(Continuation + finalFlag, Key1, <<>>)>>,
      <<F(Ping + finalFlag, Key2, <<46, 47>>), F(Text + finalFlag, Key1, <<104>>)>> }

\* the status codes of the concurrent SendClose invocations, all distinct
CloserCode(i) == <<NormalClose, CannotAccept, GoingAway, 1010>>[i]
CloserReason(i) == IF i = 1 THEN <<98>> ELSE <<>>
Closers == 1..NClosers

\* what Send and Write are asked to transmit
Messages == {<<>>, <<104, 105>>}
SendOpcodes == {Text, Ping}
\* the sizes of the buffer Receive is given
BufLens == {1, MaxBuf}

ConnInit(accept) ==
    [Accept |-> accept, readPayloadN |-> 0, writePayloadN |-> 0,
     readHead |-> 0, writeHead |-> 0, maskI |-> 0, mask |-> Key0,
     statusCode |-> 0, readBufN |-> 0, writeBufN |-> 0, readBufDone |-> 0,
     readBuf |-> <<>>, writeBuf |-> <<>>]

NoStream == [pc |-> "none", opcode |-> 0, p |-> <<>>, n |-> 0, err |-> nil,
             frags |-> 0]
NoWrite == [who |-> "none", sc |-> 0, n |-> 0, err |-> nil, sent |-> 0]
NoClose == [frames |-> 0, rule |-> TRUE]
NoTimeout == [who |-> "none", sc0 |-> 0, sc1 |-> 0]

Init ==
    /\ c = ConnInit(0)
    /\ writeMutex = "free"
    /\ \E w \in SpecWires : peer = w[1] /\ wireEnd = w[2]
    /\ wire = Encode(peer)
    /\ split = FALSE
    /\ out = <<>>
    /\ faults = 0
    /\ cl = [i \in Closers |-> [pc |-> "start", ret |-> nil, won |-> FALSE]]
    /\ snd = [pc |-> "idle", op |-> 0, msg |-> <<>>, n |-> 0, ret |-> nil,
              sc0 |-> 0, o0 |-> 0, calls |-> 0]
    /\ sw = NoStream
    /\ lw = [calls |-> 0]
    /\ rd = [RLocals EXCEPT !.buf = Zeros(MaxBuf)]
    /\ wlog = NoWrite
    /\ clog = NoClose
    /\ tlog = NoTimeout

----------------------------------------------------------------------------
\* c.writeMutex.Lock() returns when no goroutine holds the mutex,
\* websocket.go:131, 163, 194, 208, 453, 1097
TryLockAlways(m) == TRUE
TryLock(m) == m = "free"

(* SendClose under writeMutex: the best-effort notification,               *)
(* websocket.go:131-146.  o is the outcome of the transport.               *)
closeNotify(conn, statusCode, reason, o) ==
    IF NoPending(conn)
    THEN SubSeq(CloseFrame(statusCode, reason), 1, o.k)
    ELSE <<>>
closeNotifyLen(conn, statusCode, reason) ==
    IF NoPending(conn) THEN Len(CloseFrame(statusCode, reason)) ELSE 0

\* history of a SendClose that returns: won, whether this call latched;
\* wrote, whether it handed a Close frame to the transport; idle, whether no
\* write was in flight when it held the mutex
Logged(won, wrote, idle) ==
    [frames |-> clog.frames + (IF wrote THEN 1 ELSE 0),
     rule |-> clog.rule /\ (wrote <=> (won /\ idle))]

Outcome(o) == faults' = faults + (IF o.e = nil \/ Jammed THEN 0 ELSE 1)

(* A goroutine calls SendClose: the compare-and-swap *)
CloseCas(i) ==
    /\ cl[i].pc = "start"
    /\ LET cas == casClose(c, CloserCode(i))
       IN /\ c' = cas.c
          /\ IF cas.ok
             THEN /\ cl' = [cl EXCEPT ![i].pc = "lock", ![i].won = (c.statusCode = 0)]
                  /\ clog' = clog
             ELSE /\ cl' = [cl EXCEPT ![i].pc = "done", ![i].ret = closeError(c)]
                  /\ clog' = Logged(c.statusCode = 0, FALSE, c.writeBufN = 0 /\ c.writePayloadN = 0)
    /\ UNCHANGED <<sw, writeMutex, wire, split, peer, wireEnd, out, faults, snd, lw, rd, wlog, tlog>>

(* ... and, having latched, the notification under writeMutex *)
CloseLock(i) ==
    /\ cl[i].pc = "lock"
    /\ TryLock(writeMutex)
    /\ \E o \in Outcomes(closeNotifyLen(c, CloserCode(i), CloseReason(CloserReason(i)))) :
         /\ out' = out \o closeNotify(c, CloserCode(i), CloseReason(CloserReason(i)), o)
         /\ Outcome(o)
    /\ cl' = [cl EXCEPT ![i].pc = "done", ![i].ret = ClosedError(CloserCode(i))]
    /\ clog' = Logged(cl[i].won, closeNotifyLen(c, CloserCode(i), CloseReason(CloserReason(i))) > 0,
                      c.writeBufN = 0 /\ c.writePayloadN = 0)
    /\ UNCHANGED <<sw, c, writeMutex, wire, split, peer, wireEnd, snd, lw, rd, wlog, tlog>>


----------------------------------------------------------------------------
\* history of an invocation of Conn.write on a latched connection
Written(who, r) ==
    IF c.statusCode # 0
    THEN [who |-> who, sc |-> c.statusCode, n |-> r.n, err |-> r.err,
          sent |-> Len(r.sent)]
    ELSE wlog

(* Send, websocket.go:162-168: the lock and SetWriteMode ... *)
SendLockOf(messages) ==
    /\ snd.pc = "idle"
    /\ snd.calls < MaxSends
    /\ TryLock(writeMutex)
    /\ \E opcode \in SendOpcodes, message \in messages :
         /\ c' = [c EXCEPT !.writeHead = SetWriteMode(opcode, TRUE)]
         /\ snd' = [snd EXCEPT !.pc = "write", !.op = opcode, !.msg = message,
                               !.n = 0, !.ret = nil, !.sc0 = c.statusCode,
                               !.o0 = Len(out)]
    /\ writeMutex' = "send"
    /\ UNCHANGED <<sw, wire, split, peer, wireEnd, out, faults, cl, lw, rd, wlog, clog, tlog>>
SendLock == SendLockOf(Messages)

(* ... and writeWithRetry, websocket.go:220-246: one c.write(p[n:]) and the *)
(* handling of its error; a temporary error keeps the mutex for the retry.  *)
SendWrite ==
    /\ snd.pc = "write"
    /\ LET p == SubSeq(snd.msg, snd.n + 1, Len(snd.msg))
       IN \E o \in Outcomes(writeTotal(c, p)) :
            LET r == write(c, p, o.k, o.e)
                done == r.err = nil \/ IsTimeout(r.err) \/ IsFatal(r.err)
            IN /\ c' = RetryLatch(r.c, r.err)
               /\ out' = out \o r.sent
               /\ Outcome(o)
               /\ wlog' = Written("send", r)
               /\ tlog' = IF r.err # nil /\ IsTimeout(r.err)
                          THEN [who |-> "send", sc0 |-> r.c.statusCode,
                                sc1 |-> RetryLatch(r.c, r.err).statusCode]
                          ELSE tlog
               /\ snd' = IF done
                         THEN [snd EXCEPT !.pc = "idle", !.n = snd.n + r.n,
                                          !.op = 0, !.msg = <<>>, !.o0 = 0,
                                          !.ret = r.err, !.calls = snd.calls + 1]
                         ELSE [snd EXCEPT !.n = snd.n + r.n]
               /\ writeMutex' = IF done THEN "free" ELSE writeMutex
    /\ UNCHANGED <<sw, wire, split, peer, wireEnd, cl, lw, rd, clog>>

(* The low-level interface: SetWriteMode, websocket.go:1081-1090 *)
LowModes == {<<Binary, FALSE>>}
LwSetWriteMode ==
    /\ lw.calls < MaxWrites
    /\ \E m \in LowModes :
         /\ c.writeHead # SetWriteMode(m[1], m[2])
         /\ c' = [c EXCEPT !.writeHead = SetWriteMode(m[1], m[2])]
    /\ UNCHANGED <<sw, writeMutex, wire, split, peer, wireEnd, out, faults, cl, snd, lw, rd,
                   wlog, clog, tlog>>

(* The low-level interface: Write, websocket.go:1096-1101 *)
LwWrite ==
    /\ lw.calls < MaxWrites
    /\ TryLock(writeMutex)
    /\ \E p \in Messages :
         \E o \in Outcomes(writeTotal(c, p)) :
            LET r == write(c, p, o.k, o.e)
            IN /\ c' = r.c
               /\ out' = out \o r.sent
               /\ Outcome(o)
               /\ wlog' = Written("write", r)
    /\ lw' = [lw EXCEPT !.calls = lw.calls + 1]
    /\ UNCHANGED <<sw, writeMutex, wire, split, peer, wireEnd, cl, snd, rd, clog, tlog>>


----------------------------------------------------------------------------
(* The transport delivers to a Read with room for cap bytes: some of the   *)
(* bytes on the wire, or the end of the stream, or (while faults remain)   *)
(* an error instead of bytes.                                              *)
ReadOutcomes(cap) ==
    {[k |-> k, e |-> nil] : k \in (IF split THEN 1 ELSE Min(cap, Len(wire)))..Min(cap, Len(wire))} \cup
    (IF wire = <<>> /\ wireEnd = "eof" THEN {[k |-> 0, e |-> Err("EOF")]} ELSE {}) \cup
    (IF faults < MaxFaults THEN {[k |-> 0, e |-> e] : e \in TransportErrors} ELSE {})

ReadFault(o) == faults' = faults + (IF o.e \in TransportErrors THEN 1 ELSE 0)

(* ensureBufN after c.Conn.Read(c.readBuf[c.readBufN:]) returned,          *)
(* websocket.go:1337-1356                                                  *)
ensureBufNReadPlain(s, data, e) ==
    IF e = nil
    THEN [s EXCEPT !.c.readBuf = s.c.readBuf \o data,
                   !.c.readBufN = s.c.readBufN + Len(data), !.r.pc = "ens"]
    ELSE IF e.kind = "EOF"
    THEN CallSendClose([s EXCEPT !.r.cn = 0, !.r.cerr = e],
                       AbnormalClose, ReasonEOF, "rd_ret")
    ELSE [s EXCEPT !.r.cn = 0, !.r.cerr = e, !.r.pc = "rd_ret"]
ensureBufNRead(s, data, e) ==
    IF e = nil
    THEN [s EXCEPT !.c.readBuf = s.c.readBuf \o data,
                   !.c.readBufN = s.c.readBufN + Len(data), !.r.pc = "ens"]
    ELSE IF e.kind = "EOF"
    THEN IF s.c.readBufN # 0
         THEN CallSendClose([s EXCEPT !.r.cn = 0, !.r.cerr = Err("UnexpectedEOF")],
                            AbnormalClose, ReasonUnexpectedEOF, "rd_ret")
         ELSE CallSendClose([s EXCEPT !.r.cn = 0, !.r.cerr = e],
                            AbnormalClose, ReasonEOF, "rd_ret")
    ELSE [s EXCEPT !.r.cn = 0, !.r.cerr = e, !.r.pc = "rd_ret"]

(* Conn.read after c.Conn.Read(p[n:]) returned, websocket.go:1214-1219 *)
readNet(s, data, e) ==
    [s EXCEPT !.r.buf = Patch(s.r.buf, s.r.off + s.r.cn, data),
              !.r.cn = s.r.cn + Len(data), !.r.cerr = e, !.r.pc = "rd_fin"]

\* history of a timeout the reading goroutine met in Receive
ReadTimeout(o, sc1) ==
    IF o.e # nil /\ IsTimeout(o.e) /\ ~rd.low
    THEN [who |-> "recv", sc0 |-> c.statusCode, sc1 |-> sc1]
    ELSE tlog

(* Receive(buf, ...) is called, at most max times in a run, websocket.go:261 *)
RecvCallMax(max) ==
    /\ rd.pc = "idle"
    /\ ~rd.low
    /\ rd.calls < max
    /\ LET s == Run([c |-> c,
                     r |-> [rd EXCEPT !.pc = "rcv_start", !.buf = Zeros(Len(rd.buf)),
                                      !.sc0 = c.statusCode,
                                      !.fresh = (c.readPayloadN = 0)]])
       IN c' = s.c /\ rd' = s.r
    /\ UNCHANGED <<sw, writeMutex, wire, split, peer, wireEnd, out, faults, cl, snd, lw, wlog, clog, tlog>>
RecvCall == RecvCallMax(MaxReceives)

(* The low-level Read(p) is called with len(p) in lens, websocket.go:1189 *)
ReadCallOf(lens) ==
    /\ rd.pc = "idle"
    /\ rd.low
    /\ rd.calls < MaxReads
    /\ \E len \in lens :
         LET s == Run([c |-> c,
                      r |-> [rd EXCEPT !.pc = "rd_enter", !.off = 0,
                                       !.buf = Zeros(len), !.sc0 = c.statusCode,
                                       !.fresh = (c.readPayloadN = 0)]])
         IN c' = s.c /\ rd' = s.r
    /\ UNCHANGED <<sw, writeMutex, wire, split, peer, wireEnd, out, faults, cl, snd, lw, wlog, clog, tlog>>
\* every Read of the run with a buffer of the same size
ReadCall == ReadCallOf({Len(rd.buf)})

(* ensureBufN reads from the transport *)
RdNet ==
    /\ rd.pc = "net"
    /\ \E o \in ReadOutcomes(readBufLen - c.readBufN) :
         LET s == Run(ensureBufNRead([c |-> c, r |-> rd], SubSeq(wire, 1, o.k), o.e))
         IN /\ c' = s.c
            /\ rd' = s.r
            /\ wire' = SubSeq(wire, o.k + 1, Len(wire))
            /\ ReadFault(o)
            /\ tlog' = ReadTimeout(o, s.c.statusCode)
    /\ UNCHANGED <<sw, writeMutex, split, peer, wireEnd, out, cl, snd, lw, wlog, clog>>

(* Conn.read reads payload from the transport into the caller's buffer *)
RdNetPay ==
    /\ rd.pc = "netpay"
    /\ \E o \in ReadOutcomes(rd.pl - rd.cn) :
         LET s == Run(readNet([c |-> c, r |-> rd], SubSeq(wire, 1, o.k), o.e))
         IN /\ c' = s.c
            /\ rd' = s.r
            /\ wire' = SubSeq(wire, o.k + 1, Len(wire))
            /\ ReadFault(o)
            /\ tlog' = ReadTimeout(o, s.c.statusCode)
    /\ UNCHANGED <<sw, writeMutex, split, peer, wireEnd, out, cl, snd, lw, wlog, clog>>

(* SendClose of the reading goroutine, having latched, under writeMutex *)
RdCloseLock ==
    /\ rd.pc = "sc_lock"
    /\ TryLock(writeMutex)
    /\ \E o \in Outcomes(closeNotifyLen(c, rd.scCode, rd.scReason)) :
         /\ out' = out \o closeNotify(c, rd.scCode, rd.scReason, o)
         /\ Outcome(o)
    /\ LET s == Run([c |-> c, r |-> [rd EXCEPT !.scErr = ClosedError(rd.scCode),
                                               !.pc = "sc_done"]])
       IN c' = s.c /\ rd' = s.r
    /\ clog' = Logged(TRUE, closeNotifyLen(c, rd.scCode, rd.scReason) > 0,
                      c.writeBufN = 0 /\ c.writePayloadN = 0)
    /\ UNCHANGED <<sw, writeMutex, wire, split, peer, wireEnd, cl, snd, lw, wlog, tlog>>

(* gotCtrl after c.Conn.Write(pongFrame[n:]) returned, websocket.go:454-477 *)
pongWritten(s, n, err) ==
    IF err = nil THEN flushCtrl(s)
    ELSE IF IsTimeout(err)
    THEN [s EXCEPT !.c = setClose(s.c, Policy), !.r.werr = err, !.r.pc = "rwr_ret"]
    ELSE IF IsFatal(err)
    THEN [s EXCEPT !.r.werr = err, !.r.pc = "rwr_ret"]
    ELSE [s EXCEPT !.r.pongN = s.r.pongN + n, !.r.pc = "pong_retry"]

PongWrite ==
    \E o \in Outcomes(Len(rd.pong) - rd.pongN) :
       LET w == TW(SubSeq(rd.pong, rd.pongN + 1, Len(rd.pong)), o.k, o.e)
           s == Run(pongWritten([c |-> c, r |-> rd], w.n, w.err))
       IN /\ c' = s.c
          /\ rd' = s.r
          /\ out' = out \o SubSeq(rd.pong, rd.pongN + 1, rd.pongN + w.n)
          /\ Outcome(o)
          /\ writeMutex' = IF s.r.pc = "pong_retry" THEN "recv" ELSE "free"
          /\ tlog' = IF w.err # nil /\ IsTimeout(w.err)
                     THEN [who |-> "pong", sc0 |-> c.statusCode, sc1 |-> s.c.statusCode]
                     ELSE tlog

(* gotCtrl takes writeMutex and writes the Pong *)
RdPongLock ==
    /\ rd.pc = "pong_lock"
    /\ TryLock(writeMutex)
    /\ PongWrite
    /\ UNCHANGED <<sw, wire, split, peer, wireEnd, cl, snd, lw, wlog, clog>>

(* gotCtrl, holding writeMutex, retries after a temporary error *)
RdPongRetry ==
    /\ rd.pc = "pong_retry"
    /\ PongWrite
    /\ UNCHANGED <<sw, wire, split, peer, wireEnd, cl, snd, lw, wlog, clog>>

----------------------------------------------------------------------------
Next ==
    \/ \E i \in Closers : CloseCas(i)
    \/ \E i \in Closers : CloseLock(i)
    \/ SendLock
    \/ SendWrite
    \/ LwSetWriteMode
    \/ LwWrite
    \/ RecvCall
    \/ RdNet
    \/ RdCloseLock

Spec == Init /\ [][Next]_vars

----------------------------------------------------------------------------
(* The reading goroutine alone, with a transport that delivers the peer's   *)
(* bytes in pieces of any size.  The caller uses either Receive or the      *)
(* low-level Read for the whole run.                                        *)
InitRecv ==
    /\ c = ConnInit(0)
    /\ writeMutex = "free"
    /\ peer \in RecvScripts
    /\ wire = Encode(peer)
    /\ split = TRUE
    /\ wireEnd = "open"
    /\ out = <<>>
    /\ faults = 0
    /\ cl = [i \in Closers |-> [pc |-> "done", ret |-> nil, won |-> FALSE]]
    /\ snd = [pc |-> "idle", op |-> 0, msg |-> <<>>, n |-> 0, ret |-> nil,
              sc0 |-> 0, o0 |-> 0, calls |-> 0]
    /\ sw = NoStream
    /\ lw = [calls |-> 0]
    /\ \E len \in BufLens, low \in BOOLEAN :
         rd = [RLocals EXCEPT !.buf = Zeros(len), !.low = low]
    /\ wlog = NoWrite
    /\ clog = NoClose
    /\ tlog = NoTimeout

NextRecv ==
    \/ RecvCall
    \/ ReadCall
    \/ RdNet
    \/ RdNetPay
    \/ RdCloseLock
    \/ RdPongLock
    \/ RdPongRetry

SpecRecv == InitRecv /\ [][NextRecv]_vars


----------------------------------------------------------------------------
(* SendStream and its io.WriteCloser, websocket.go:182-217 *)
MaxFrags == 2       \* Write invocations on the stream writer in one run
StreamOpcode == Binary

(* SendStream: SetWriteMode without the mutex, websocket.go:182-185 *)
SendStream ==
    /\ sw.pc = "none"
    /\ c' = [c EXCEPT !.writeHead = SetWriteMode(StreamOpcode, FALSE)]
    /\ sw' = [sw EXCEPT !.pc = "open", !.opcode = StreamOpcode]
    /\ UNCHANGED <<writeMutex, wire, split, peer, wireEnd, out, faults, cl, snd,
                   lw, rd, wlog, clog, tlog>>

(* messageWriter.Write: the lock and SetWriteMode, websocket.go:193-199 *)
StreamLock ==
    /\ sw.pc = "open"
    /\ sw.frags < MaxFrags
    /\ TryLock(writeMutex)
    /\ \E p \in Messages :
         IF sw.opcode = Close
         THEN /\ sw' = [sw EXCEPT !.n = 0, !.err = Err("closedpipe"),
                                  !.frags = sw.frags + 1]
              /\ UNCHANGED <<c, writeMutex>>
         ELSE /\ c' = [c EXCEPT !.writeHead = SetWriteMode(sw.opcode, FALSE)]
              /\ sw' = [sw EXCEPT !.pc = "write", !.opcode = Continuation,
                                  !.p = p, !.n = 0, !.err = nil]
              /\ writeMutex' = "stream"
    /\ UNCHANGED <<wire, split, peer, wireEnd, out, faults, cl, snd, lw, rd,
                   wlog, clog, tlog>>

(* messageWriter.Close: the lock and SetWriteMode, websocket.go:207-212.   *)
(* The receiver is a copy: w.opcode = Close does not reach the writer.     *)
StreamCloseLock ==
    /\ sw.pc = "open"
    /\ TryLock(writeMutex)
    /\ IF sw.opcode # Close
       THEN /\ c' = [c EXCEPT !.writeHead = SetWriteMode(sw.opcode, TRUE)]
            /\ sw' = [sw EXCEPT !.pc = "closing", !.p = <<>>, !.n = 0, !.err = nil]
            /\ writeMutex' = "stream"
       ELSE /\ sw' = [sw EXCEPT !.pc = "closed", !.p = <<>>, !.n = 0, !.err = nil]
            /\ UNCHANGED <<c, writeMutex>>
    /\ UNCHANGED <<wire, split, peer, wireEnd, out, faults, cl, snd, lw, rd,
                   wlog, clog, tlog>>

(* writeWithRetry of messageWriter.Write or Close, websocket.go:220-246,   *)
(* and the unlock when it returns                                          *)
StreamWrite ==
    /\ sw.pc \in {"write", "closing"}
    /\ LET p == SubSeq(sw.p, sw.n + 1, Len(sw.p))
       IN \E o \in Outcomes(writeTotal(c, p)) :
            LET r == write(c, p, o.k, o.e)
                done == r.err = nil \/ IsTimeout(r.err) \/ IsFatal(r.err)
            IN /\ c' = RetryLatch(r.c, r.err)
               /\ out' = out \o r.sent
               /\ Outcome(o)
               /\ wlog' = Written("stream", r)
               /\ tlog' = IF r.err # nil /\ IsTimeout(r.err)
                          THEN [who |-> "stream", sc0 |-> r.c.statusCode,
                                sc1 |-> RetryLatch(r.c, r.err).statusCode]
                          ELSE tlog
               /\ sw' = IF done
                        THEN [sw EXCEPT !.pc = IF sw.pc = "write" THEN "open" ELSE "closed",
                                        !.n = sw.n + r.n, !.p = <<>>, !.err = r.err,
                                        !.frags = sw.frags + (IF sw.pc = "write" THEN 1 ELSE 0)]
                        ELSE [sw EXCEPT !.n = sw.n + r.n]
               /\ writeMutex' = IF done THEN "free" ELSE writeMutex
    /\ UNCHANGED <<wire, split, peer, wireEnd, cl, snd, lw, rd, clog>>

(* A stream writer and a goroutine that calls Send, on a transport that    *)
(* accepts every byte.                                                     *)
InitStream ==
    /\ c = ConnInit(0)
    /\ writeMutex = "free"
    /\ peer = <<>>
    /\ wire = <<>>
    /\ split = FALSE
    /\ wireEnd = "open"
    /\ out = <<>>
    /\ faults = MaxFaults
    /\ cl = [i \in Closers |-> [pc |-> "done", ret |-> nil, won |-> FALSE]]
    /\ snd = [pc |-> "idle", op |-> 0, msg |-> <<>>, n |-> 0, ret |-> nil,
              sc0 |-> 0, o0 |-> 0, calls |-> 0]
    /\ sw = NoStream
    /\ lw = [calls |-> 0]
    /\ rd = RLocals
    /\ wlog = NoWrite
    /\ clog = NoClose
    /\ tlog = NoTimeout

NextStream ==
    \/ SendStream
    \/ StreamLock
    \/ StreamCloseLock
    \/ StreamWrite
    \/ SendLock
    \/ SendWrite

SpecStream == InitStream /\ [][NextStream]_vars

----------------------------------------------------------------------------
(* Properties of the close latch and of the writers, under Spec *)

\* the status code the latch holds
LatchedCode == c.statusCode % (statusCodeMask + 1)
\* the SendClose invocations that found the latch unset
Winners == {i \in Closers : cl[i].won}
CloserCodes == {CloserCode(i) : i \in Closers}

\* C1: of the concurrent SendClose invocations with distinct status codes
\* at most one wins the compare-and-swap, and exactly one when the latch
\* holds one of their codes; the latch then holds the winner's code, and
\* every invocation, winner or not, returns ClosedError of the latched code.
C1_OneWinner ==
    /\ Cardinality(Winners) <= 1
    /\ \A i \in Winners : c.statusCode = CloserCode(i) + statusCodeSetFlag
    /\ \A i \in Closers : cl[i].pc = "done" => cl[i].ret = ClosedError(LatchedCode)
    /\ (\A i \in Closers : cl[i].pc # "start") /\ LatchedCode \in CloserCodes
         => Cardinality(Winners) = 1

\* every SendClose returned, one won and another lost and returned the
\* winner's code
C1_Witness ==
    /\ \A i \in Closers : cl[i].pc = "done"
    /\ \E i, j \in Closers :
         /\ cl[i].won /\ ~cl[j].won
         /\ cl[i].ret = ClosedError(CloserCode(i))
         /\ cl[j].ret = ClosedError(CloserCode(i))

\* C2: once statusCode is not zero no step changes it.
C2_LatchFinal == [][c.statusCode # 0 => c'.statusCode = c.statusCode]_vars

\* a SendClose with another code came after the latch was set, and a
\* timeout tried to latch Policy on top of it
C2_Witness ==
    /\ \E i \in Closers : cl[i].pc = "done" /\ ~cl[i].won /\ LatchedCode # CloserCode(i)
    /\ tlog.who # "none" /\ tlog.sc0 # 0

\* C3: a Conn.write that starts with the latch set, from the low-level
\* Write or from Send, returns n = 0 and ClosedError of the latched code and
\* hands no byte to the transport; a Send that starts with the latch set
\* returns that ClosedError.
C3_LatchedWrite ==
    /\ wlog.who # "none" =>
         /\ wlog.n = 0
         /\ wlog.sent = 0
         /\ wlog.err = ClosedError(wlog.sc % (statusCodeMask + 1))
    /\ snd.pc = "idle" /\ snd.calls > 0 /\ snd.sc0 # 0 =>
         /\ snd.n = 0
         /\ snd.ret = ClosedError(snd.sc0 % (statusCodeMask + 1))

\* a Send and then a low-level Write were made on a latched connection
C3_Witness ==
    /\ snd.pc = "idle" /\ snd.calls > 0 /\ snd.sc0 # 0
    /\ wlog.who = "write" /\ wlog.sc # 0

\* C4: a SendClose hands a Close frame to the transport exactly when it
\* latched and no write was pending when it held the mutex; all the
\* SendClose invocations together hand over at most one Close frame.
C4_CloseFrame == clog.rule /\ clog.frames <= 1

\* a SendClose latched, found a frame pending and returned without writing
C4_Witness ==
    /\ \E i \in Closers : cl[i].pc = "done" /\ cl[i].won
    /\ clog.frames = 0
    /\ c.writeBufN # 0 \/ c.writePayloadN # 0

\* C10: a timeout of a transport read in Receive or of a transport write in
\* Send leaves the latch at Policy when it was unset and as it was otherwise;
\* the call returns with the latch set, and a write made after the latch
\* holds Policy returns ClosedError(Policy).
C10_TimeoutLatch ==
    /\ tlog.who # "none" =>
         tlog.sc1 = IF tlog.sc0 = 0 THEN Policy + statusCodeSetFlag ELSE tlog.sc0
    /\ snd.pc = "idle" /\ IsTimeout(snd.ret) => c.statusCode # 0
    /\ rd.pc = "idle" /\ IsTimeout(rd.res.err) => c.statusCode # 0
    /\ wlog.who # "none" /\ wlog.sc = Policy + statusCodeSetFlag =>
         wlog.n = 0 /\ wlog.err = ClosedError(Policy)

\* Receive met a read timeout on an unlatched connection, and a later Send
\* was refused
C10_Witness ==
    /\ tlog.who = "recv" /\ tlog.sc0 = 0
    /\ rd.pc = "idle" /\ IsTimeout(rd.res.err)
    /\ wlog.who = "send" /\ wlog.sc = Policy + statusCodeSetFlag


----------------------------------------------------------------------------
(* Properties of the reading goroutine, under SpecRecv *)

IsData(f) == f.head % (opcodeMask + 1) < ctrlFlag
IsFinal(f) == f.head >= finalFlag
IsPing(f) == f.head % (opcodeMask + 1) = Ping

\* the index of the frame that ends the message of the script
MsgEnd == CHOOSE i \in 1..Len(peer) : IsData(peer[i]) /\ IsFinal(peer[i])
RECURSIVE Payloads(_)
Payloads(fs) == IF fs = <<>> THEN <<>> ELSE Head(fs).payload \o Payloads(Tail(fs))
\* the message: the payloads of the data frames, in the order sent
Message == Payloads(SelectSeq(SubSeq(peer, 1, MsgEnd), IsData))
FirstOpcode == SelectSeq(peer, IsData)[1].head % (opcodeMask + 1)
\* the answers to the Pings that precede the end of the message
RECURSIVE Pongs(_)
Pongs(fs) ==
    IF fs = <<>> THEN <<>>
    ELSE BareFrame(Pong + finalFlag, Head(fs).payload) \o Pongs(Tail(fs))
ExpectedPongs == Pongs(SelectSeq(SubSeq(peer, 1, MsgEnd), IsPing))

\* Receive returned without an error
Received == rd.pc = "idle" /\ ~rd.low /\ rd.calls > 0 /\ rd.res.err = nil
\* the low-level Read returned without an error
ReadDone == rd.pc = "idle" /\ rd.low /\ rd.calls > 0 /\ rd.res.err = nil

\* C6: when Receive returns a message, every Ping that came before the end
\* of the message was answered with one unmasked Pong frame that carries the
\* Ping's payload, and the Ping payloads are not counted in n.
C6_PingPong ==
    Received => out = ExpectedPongs /\ rd.res.n = Len(Message)

\* C7: when Receive returns a message that fits the buffer, the buffer
\* holds the concatenation of the fragment payloads, n is its length and the
\* opcode is the one of the first fragment.
C7_ReceiveMessage ==
    Received /\ Len(Message) <= Len(rd.buf) =>
        /\ rd.res.n = Len(Message)
        /\ SubSeq(rd.buf, 1, rd.res.n) = Message
        /\ rd.res.opcode = FirstOpcode

Consumed == Len(Encode(peer)) - Len(wire) - (c.readBufN - c.readBufDone)
\* the frame of the script that holds the last byte consumed
CurFrame ==
    CHOOSE i \in 1..Len(peer) :
        /\ Len(Encode(SubSeq(peer, 1, i - 1))) < Consumed
        /\ Consumed <= Len(Encode(SubSeq(peer, 1, i)))

----------------------------------------------------------------------------
(* Properties of the stream writer, under SpecStream *)

\* the first bytes of the frames on the transport, -1 for a frame cut short
RECURSIVE Heads(_)
Heads(b) ==
    IF b = <<>> THEN <<>>
    ELSE IF Len(b) < 2 \/ Len(b) < 2 + b[2] THEN <<-1>>
    ELSE <<b[1]>> \o Heads(SubSeq(b, 3 + b[2], Len(b)))

\* the first bytes of a Send with a data opcode, of the first fragment of
\* the stream, of its later fragments and of its final frame
SendDataHead == Text + finalFlag
FirstFragment == StreamOpcode
FinalFragment == Continuation + finalFlag

\* a data frame of Send lies after the first fragment and before the
\* final frame of the stream
DataBetween(h) ==
    \E i, j \in 1..Len(h) :
        /\ i < j
        /\ h[i] = FirstFragment
        /\ h[j] = SendDataHead
        /\ \A k \in 1..j : h[k] # FinalFragment

----------------------------------------------------------------------------
(* Send alone, on a transport that fails, with payloads on both sides of   *)
(* the two header thresholds of Conn.write (126 and 65536).  Send is       *)
(* Write in final mode, retried by writeWithRetry with p[n:].              *)

\* a payload of the given size whose bytes tell their position
Payload(size) == [i \in 1..size |-> i % 251]
WriteSizes == {0, 2, 125, 126, 65536}
WriteMessages == {Payload(size) : size \in WriteSizes}

\* one Send in a run: the transport is empty when it starts
SendLockWrite == snd.calls = 0 /\ SendLockOf(WriteMessages)

InitWrite ==
    /\ c = ConnInit(0)
    /\ writeMutex = "free"
    /\ peer = <<>>
    /\ wire = <<>>
    /\ split = FALSE
    /\ wireEnd = "open"
    /\ out = <<>>
    /\ faults = 0
    /\ cl = [i \in Closers |-> [pc |-> "done", ret |-> nil, won |-> FALSE]]
    /\ snd = [pc |-> "idle", op |-> 0, msg |-> <<>>, n |-> 0, ret |-> nil,
              sc0 |-> 0, o0 |-> 0, calls |-> 0]
    /\ sw = NoStream
    /\ lw = [calls |-> 0]
    /\ rd = RLocals
    /\ wlog = NoWrite
    /\ clog = NoClose
    /\ tlog = NoTimeout

NextWrite ==
    \/ SendLockWrite
    \/ SendWrite

SpecWrite == InitWrite /\ [][NextWrite]_vars

----------------------------------------------------------------------------
(* Properties of Write and its retry, under SpecWrite *)

\* the frame RFC 6455, section 5.2 prescribes for an unmasked payload
WireLength(size) ==
    IF size <= 125 THEN <<size>>
    ELSE IF size <= 65535 THEN <<126, size \div 256, size % 256>>
    ELSE <<127, 0, 0, 0, 0, (size \div 16777216) % 256, (size \div 65536) % 256,
           (size \div 256) % 256, size % 256>>
WireFrame(head, p) == <<head>> \o WireLength(Len(p)) \o p

\* a step that completes a Send without an error
SendSucceeds == snd.pc = "write" /\ snd'.pc = "idle" /\ snd'.ret = nil

\* C11, as the specification states it: when Write is retried with p[n:]
\* after partial writes until it succeeds, the transport has received one
\* frame header for len(p) followed by the bytes of p, whatever the size of
\* the payload and wherever the transport stopped.
C11_RetryOneFrame ==
    [][SendSucceeds =>
         out' = SubSeq(out, 1, snd.o0) \o WireFrame(finalFlag + snd.op, snd.msg)]_vars

\* C17: on an open connection with no frame pending and final write mode,
\* a Write(p) that the transport accepts in full returns (len(p), nil) and
\* puts one frame on the transport: the byte 0x80|opcode, the length in 1,
\* 3 or 9 more header bytes (len(p) < 126, < 65536, and above, big-endian)
\* and then the bytes of p.
C17_WriteFrame ==
    [][LET p == SubSeq(snd.msg, snd.n + 1, Len(snd.msg))
       IN (/\ snd.pc = "write"
           /\ c.statusCode = 0
           /\ ~(c.writeBufN > 0 \/ c.writePayloadN > 0)
           /\ faults' = faults)
          => /\ snd'.pc = "idle"
             /\ snd'.ret = nil
             /\ snd'.n = snd.n + Len(p)
             /\ out' = out \o WireFrame(finalFlag + snd.op, p)
             /\ Len(out') - Len(out) - Len(p) =
                  IF Len(p) < 126 THEN 2 ELSE IF Len(p) < 65536 THEN 4 ELSE 10]_vars

\* a payload of 65536 bytes went out behind a header of 10 bytes
C17_Witness ==
    /\ snd.pc = "idle" /\ snd.calls = 1 /\ snd.ret = nil /\ faults = 0
    /\ Len(out) = 65536 + 10
    /\ SubSeq(out, 1, 10) = <<finalFlag + Text, 127, 0, 0, 0, 0, 0, 1, 0, 0>>
    /\ snd.n = 65536

----------------------------------------------------------------------------
(* The reading goroutine alone, fed with frames the peer should not send   *)
(* and with streams that end, also in the middle of a frame.  The          *)
(* transport delivers in pieces of any size and then reports EOF; it does  *)
(* not fail otherwise.                                                     *)

\* well-formed client frames
TextFrame == F(Text + finalFlag, Key1, <<104, 105>>)
EmptyFrame == F(Binary + finalFlag, Key2, <<>>)
PingFrame == F(Ping + finalFlag, Key1, <<46>>)
NormalCloseFrame == F(Close + finalFlag, Key1, <<3, 232>>)
LongFrame == F(Binary + finalFlag, Key1, Payload(126))

\* frames with one of RSV1, RSV2 and RSV3 set
ReservedFrames ==
    { F(Text + finalFlag + 64, Key1, <<104, 105>>),
      F(Binary + finalFlag + 32, Key2, <<>>),
      F(Ping + finalFlag + 16, Key1, <<46>>),
      F(Text + 64 + 16, <<>>, <<104, 105, 33, 33>>) }
\* frames without a mask
UnmaskedFrames ==
    { F(Text + finalFlag, <<>>, <<104, 105, 33, 33>>),
      F(Text + finalFlag, <<>>, <<>>),
      F(Ping + finalFlag, <<>>, <<46, 47, 48, 49>>) }
\* control frames that are fragments or longer than 125 bytes
ControlFrames ==
    { F(Ping, Key1, <<46>>),
      F(Close, Key1, <<3, 232>>),
      F(Pong, Key2, <<>>),
      F(Ping + finalFlag, Key1, Payload(126)),
      F(Close, Key2, Payload(126)) }
\* one final frame of each opcode
OpcodeFrames == {F(opcode + finalFlag, Key1, <<1>>) : opcode \in 0..15}

\* the frame without its last k bytes
Short(f, k) == [f EXCEPT !.short = k]
\* the frames of which the peer sends a part only: any part of a short
\* frame, and up to MaxPart bytes of a long one
MaxPart == 9
Parts(f) ==
    {Short(f, k) : k \in {j \in 1..(Len(WholeFrame(f)) - 1) :
                            Len(WholeFrame(f)) - j <= MaxPart}}
PartFrames == Parts(TextFrame) \cup Parts(PingFrame) \cup Parts(LongFrame)

\* the subject of a run is the last frame of its script; an empty data
\* frame may precede it
Subjects ==
    {TextFrame, EmptyFrame, PingFrame, NormalCloseFrame}
    \cup ReservedFrames \cup UnmaskedFrames \cup ControlFrames
    \cup OpcodeFrames \cup PartFrames
FrameScripts ==
    {<<>>} \cup {<<f>> : f \in Subjects} \cup {<<EmptyFrame, f>> : f \in Subjects}
Accepts == {0, AcceptV13}

InitFrame ==
    /\ \E accept \in Accepts : c = ConnInit(accept)
    /\ writeMutex = "free"
    /\ peer \in FrameScripts
    /\ wire = Encode(peer)
    /\ split = TRUE
    /\ wireEnd = "eof"
    /\ out = <<>>
    /\ faults = MaxFaults
    /\ cl = [i \in Closers |-> [pc |-> "done", ret |-> nil, won |-> FALSE]]
    /\ snd = [pc |-> "idle", op |-> 0, msg |-> <<>>, n |-> 0, ret |-> nil,
              sc0 |-> 0, o0 |-> 0, calls |-> 0]
    /\ sw = NoStream
    /\ lw = [calls |-> 0]
    /\ \E len \in BufLens, low \in BOOLEAN :
         rd = [RLocals EXCEPT !.buf = Zeros(len), !.low = low]
    /\ wlog = NoWrite
    /\ clog = NoClose
    /\ tlog = NoTimeout

NextFrame ==
    \/ RecvCall
    \/ ReadCall
    \/ RdNet
    \/ RdNetPay
    \/ RdCloseLock
    \/ RdPongLock

SpecFrame == InitFrame /\ [][NextFrame]_vars

----------------------------------------------------------------------------
(* Properties of frame validation and of the end of the stream, under      *)
(* SpecFrame                                                               *)

Opcode(f) == f.head % (opcodeMask + 1)
HasReserved(f) == (f.head \div 16) % 8 # 0
IsControl(f) == Opcode(f) >= ctrlFlag
\* a frame a client may send according to RFC 6455
WellFormed(f) ==
    /\ f.key # <<>>
    /\ ~HasReserved(f)
    /\ Opcode(f) \in {Continuation, Text, Binary, Close, Ping, Pong}
    /\ IsControl(f) => IsFinal(f) /\ Len(f.payload) <= 125

\* the last frame of the script
Subject == peer[Len(peer)]
\* a call has returned, and it was the call that met the subject: the
\* empty data frame before it takes one call
Met == peer # <<>> /\ rd.pc = "idle" /\ rd.calls = Len(peer)
\* a call that met the subject or a later call has returned
MetBefore == peer # <<>> /\ rd.pc = "idle" /\ rd.calls >= Len(peer)
\* the call delivered nothing to the caller
NothingDelivered == rd.res.n = 0 /\ rd.buf = Zeros(Len(rd.buf))
\* the only frame written is the Close frame for the status code
OnlyCloseFrame(code, reason) == out = CloseFrame(code, reason)

C14_Unmasked ==
    (MetBefore /\ Subject.key = <<>> /\ ~HasReserved(Subject)) =>
        /\ rd.res.err = ClosedError(ProtocolError)
        /\ c.statusCode = ProtocolError + statusCodeSetFlag
        /\ NothingDelivered

C16_Accept ==
    /\ (/\ Met /\ c.Accept = AcceptV13
        /\ Subject.key # <<>> /\ ~HasReserved(Subject) /\ Subject.short = 0
        /\ Opcode(Subject) \in (3..7) \cup (11..15)) =>
           /\ rd.res.err = ClosedError(CannotAccept)
           /\ c.statusCode = CannotAccept + statusCodeSetFlag
           /\ NothingDelivered
    /\ LatchedCode = CannotAccept =>
           /\ c.Accept = AcceptV13
           /\ peer # <<>> /\ Opcode(Subject) \in (3..7) \cup (11..15)

\* a frame with opcode 11 was refused, and in other runs frames with the
\* opcodes of version 13 were not
C16_Witness ==
    /\ Met /\ rd.low /\ c.Accept = AcceptV13
    /\ Subject = F(11 + finalFlag, Key1, <<1>>)
    /\ rd.res.err = ClosedError(CannotAccept)
    /\ out = CloseFrame(CannotAccept, OpcodeReason(11))

----------------------------------------------------------------------------
(* The low-level Read alone, on one masked data frame whose payload takes  *)
(* the word loop of unmaskN; the transport delivers in pieces of any size  *)
(* and every Read has a buffer of its own size.                            *)
MaskSizes == {11, 16}
MaskKeys == {Key1, Key2}
MaskScripts ==
    {<<F(Binary + finalFlag, key, Payload(size))>> : key \in MaskKeys, size \in MaskSizes}
MaskBufLens == {1, 3, 8, 9, 16}

ReadCallMask == ReadCallOf(MaskBufLens)

InitMask ==
    /\ c = ConnInit(0)
    /\ writeMutex = "free"
    /\ peer \in MaskScripts
    /\ wire = Encode(peer)
    /\ split = TRUE
    /\ wireEnd = "open"
    /\ out = <<>>
    /\ faults = MaxFaults
    /\ cl = [i \in Closers |-> [pc |-> "done", ret |-> nil, won |-> FALSE]]
    /\ snd = [pc |-> "idle", op |-> 0, msg |-> <<>>, n |-> 0, ret |-> nil,
              sc0 |-> 0, o0 |-> 0, calls |-> 0]
    /\ sw = NoStream
    /\ lw = [calls |-> 0]
    /\ rd = [RLocals EXCEPT !.low = TRUE]
    /\ wlog = NoWrite
    /\ clog = NoClose
    /\ tlog = NoTimeout

NextMask ==
    \/ ReadCallMask
    \/ RdNet
    \/ RdNetPay

SpecMask == InitMask /\ [][NextMask]_vars

----------------------------------------------------------------------------
(* Properties of unmasking, under SpecMask *)

\* the bytes of the payload that the Reads have accounted for
PayloadDone == Len(peer[1].payload) - c.readPayloadN

\* C18: every Read of a masked data frame returns the next bytes of the
\* payload as the peer had them before masking (the wire bytes XORed with
\* key byte i mod 4, i the position in the payload), however the transport
\* cut the frame and whatever the sizes of the buffers: the Reads up to the
\* one that reports final return the payload.  The mask offset follows the
\* position in the payload modulo 4, also across blocks of 8 bytes.
C18_Unmask ==
    ReadDone =>
        /\ SubSeq(rd.buf, 1, rd.res.n) =
             SubSeq(peer[1].payload, PayloadDone - rd.res.n + 1, PayloadDone)
        /\ rd.res.final <=> PayloadDone = Len(peer[1].payload)
        /\ c.maskI % 4 = PayloadDone % 4
        /\ rd.res.n > 0

\* a Read took 9 bytes from an offset that is not a multiple of 4, through
\* the word loop, and completed the frame
C18_Witness ==
    /\ ReadDone /\ rd.res.final /\ rd.res.n = 9 /\ rd.calls = 2
    /\ Len(peer[1].payload) = 11 /\ peer[1].key = Key2
    /\ SubSeq(rd.buf, 1, 9) = SubSeq(Payload(11), 3, 11)

----------------------------------------------------------------------------
(* Properties of Close on the stream writer, under SpecStream *)

\* a step in which Close on the stream writer returns after its write
StreamCloses == sw.pc = "closing" /\ sw'.pc = "closed"

----------------------------------------------------------------------------
(* Receive on two messages in a row, the first of them a Text message that *)
(* may not be UTF-8, and a Send that follows the first Receive.  The       *)
(* transport delivers in pieces of any size and does not fail.             *)

\* byte sequences that are not UTF-8: a byte that starts no sequence, a
\* wrong and a missing continuation byte, a surrogate and an overlong form
InvalidTexts == {<<255>>, <<195, 40>>, <<226, 130>>, <<237, 160, 128>>, <<192, 128>>}
\* "hi", U+00E9 and U+20AC
ValidTexts == {<<104, 105>>, <<195, 169>>, <<226, 130, 172>>}

\* a message in one frame, and in two fragments with the cut after its
\* first byte
InOne(opcode, key, text) == <<F(opcode + finalFlag, key, text)>>
InTwo(opcode, key, text) ==
    <<F(opcode, key, SubSeq(text, 1, 1)),
      F(Continuation + finalFlag, key, SubSeq(text, 2, Len(text)))>>
Utf8Scripts ==
    {InOne(opcode, Key1, text) \o InOne(Text, Key2, <<104, 105>>) :
        opcode \in {Text, Binary}, text \in InvalidTexts \cup ValidTexts}
    \cup {InTwo(Text, Key2, text) \o InTwo(Text, Key1, <<195, 169>>) :
        text \in InvalidTexts \cup ValidTexts}

\* the second Receive of the run
RecvCallNext == RecvCallMax(MaxReceives + 1)
\* Send, called after the first Receive returned
SendLockNext == rd.pc = "idle" /\ rd.calls > 0 /\ SendLock

InitUtf8 ==
    /\ c = ConnInit(0)
    /\ writeMutex = "free"
    /\ peer \in Utf8Scripts
    /\ wire = Encode(peer)
    /\ split = TRUE
    /\ wireEnd = "open"
    /\ out = <<>>
    /\ faults = MaxFaults
    /\ cl = [i \in Closers |-> [pc |-> "done", ret |-> nil, won |-> FALSE]]
    /\ snd = [pc |-> "idle", op |-> 0, msg |-> <<>>, n |-> 0, ret |-> nil,
              sc0 |-> 0, o0 |-> 0, calls |-> 0]
    /\ sw = NoStream
    /\ lw = [calls |-> 0]
    /\ rd = [RLocals EXCEPT !.buf = Zeros(MaxBuf)]
    /\ wlog = NoWrite
    /\ clog = NoClose
    /\ tlog = NoTimeout

NextUtf8 ==
    \/ RecvCallNext
    \/ RdNet
    \/ RdNetPay
    \/ SendLockNext
    \/ SendWrite

SpecUtf8 == InitUtf8 /\ [][NextUtf8]_vars

----------------------------------------------------------------------------
(* Properties of the UTF-8 check of Receive, under SpecUtf8 *)

\* the index of the frame that ends the first message of the script
FirstEnd ==
    CHOOSE i \in 1..Len(peer) :
        /\ IsData(peer[i]) /\ IsFinal(peer[i])
        /\ \A j \in 1..(i - 1) : ~IsFinal(peer[j])
\* the frames of the message that the k-th Receive of the run returns
MessageFrames(k) ==
    IF k = 1 THEN SubSeq(peer, 1, FirstEnd) ELSE SubSeq(peer, FirstEnd + 1, Len(peer))

\* C20: a Receive that completes a Text message which is not UTF-8 returns
\* ErrUTF8 with the opcode Text and the number of bytes of the message, in
\* the buffer; it leaves the latch unset; the Receive that follows returns
\* the next message, and the Send that follows succeeds and puts its frame
\* on the transport.
C20_Utf8 ==
    /\ \A k \in 1..2 :
         rd.pc = "idle" /\ rd.calls = k =>
            LET frames == MessageFrames(k)
                text == Payloads(frames)
                opcode == Opcode(frames[1])
            IN /\ rd.res.opcode = opcode
               /\ rd.res.n = Len(text)
               /\ SubSeq(rd.buf, 1, rd.res.n) = text
               /\ rd.res.err = IF opcode = Text /\ text \in InvalidTexts
                               THEN Err("utf8") ELSE nil
    /\ c.statusCode = 0
    /\ snd.pc = "idle" /\ snd.calls > 0 =>
         /\ snd.ret = nil
         /\ Len(Heads(out)) = snd.calls
         /\ \A i \in 1..Len(Heads(out)) : Heads(out)[i] \in {op + finalFlag : op \in SendOpcodes}

\* after ErrUTF8 for the bytes 0xC3 0x28 the next Receive returned "hi"
\* and a Send put "hi" on the transport
C20_Witness ==
    /\ rd.pc = "idle" /\ rd.calls = 2 /\ rd.res.err = nil
    /\ peer = InOne(Text, Key1, <<195, 40>>) \o InOne(Text, Key2, <<104, 105>>)
    /\ SubSeq(rd.buf, 1, rd.res.n) = <<104, 105>>
    /\ snd.pc = "idle" /\ snd.calls = 1 /\ out = <<finalFlag + Text, 2, 104, 105>>

----------------------------------------------------------------------------
(* ReceiveStream and the io.Reader it returns, on one message.  The        *)
(* transport delivers in pieces of any size and does not fail; the caller  *)
(* chooses the size of the buffer for each Read.                           *)
MaxStreamReads == 7     \* invocations of ReceiveStream and of Read in one run

\* "h" U+00E9, U+20AC and U+1F600 "!"
StreamTexts == {<<104, 195, 169>>, <<226, 130, 172>>, <<240, 159, 152, 128, 33>>}
\* a message in two fragments with the cut after byte k
CutAt(opcode, key, text, k) ==
    <<F(opcode, key, SubSeq(text, 1, k)),
      F(Continuation + finalFlag, key, SubSeq(text, k + 1, Len(text)))>>
\* the Text messages that are UTF-8, in one frame and in two fragments
ValidTextScripts ==
    {InOne(Text, Key1, text) : text \in StreamTexts} \cup
    UNION {{CutAt(Text, Key2, text, k) : k \in 1..Len(text)} : text \in StreamTexts}
\* a Binary message, an empty message, and a Text message that is not UTF-8
\* and has four bytes in a row that start a sequence
StreamScripts ==
    ValidTextScripts \cup
    { CutAt(Binary, Key1, <<1, 2, 3>>, 2),
      InOne(Text, Key1, <<>>),
      InOne(Text, Key1, <<97, 195, 195, 195, 195, 98>>) }
\* the sizes of the buffer Read is given
StreamBufLens == {1, 2, 5}

(* ReceiveStream is called, websocket.go:298 *)
StreamCall ==
    /\ rd.pc = "idle"
    /\ rd.tr.kind = "none"
    /\ rd.calls = 0
    /\ LET s == Run([c |-> c,
                     r |-> [rd EXCEPT !.pc = "rs_start", !.buf = <<>>,
                                      !.sc0 = c.statusCode,
                                      !.fresh = (c.readPayloadN = 0)]])
       IN c' = s.c /\ rd' = s.r
    /\ UNCHANGED <<sw, writeMutex, wire, split, peer, wireEnd, out, faults, cl, snd, lw, wlog, clog, tlog>>

(* Read(p) of the reader is called, websocket.go:327, 350, 402 *)
StreamRead ==
    /\ rd.pc = "idle"
    /\ rd.tr.kind \in {"eof", "text", "message"}
    /\ rd.calls < MaxStreamReads
    /\ \E len \in StreamBufLens :
         LET s == Run([c |-> c,
                      r |-> [rd EXCEPT !.pc = "sr_start", !.buf = Zeros(len),
                                       !.sc0 = c.statusCode,
                                       !.fresh = (c.readPayloadN = 0)]])
         IN c' = s.c /\ rd' = s.r
    /\ UNCHANGED <<sw, writeMutex, wire, split, peer, wireEnd, out, faults, cl, snd, lw, wlog, clog, tlog>>

InitText ==
    /\ c = ConnInit(0)
    /\ writeMutex = "free"
    /\ peer \in StreamScripts
    /\ wire = Encode(peer)
    /\ split = TRUE
    /\ wireEnd = "open"
    /\ out = <<>>
    /\ faults = MaxFaults
    /\ cl = [i \in Closers |-> [pc |-> "done", ret |-> nil, won |-> FALSE]]
    /\ snd = [pc |-> "idle", op |-> 0, msg |-> <<>>, n |-> 0, ret |-> nil,
              sc0 |-> 0, o0 |-> 0, calls |-> 0]
    /\ sw = NoStream
    /\ lw = [calls |-> 0]
    /\ rd = RLocals
    /\ wlog = NoWrite
    /\ clog = NoClose
    /\ tlog = NoTimeout

NextText ==
    \/ StreamCall
    \/ StreamRead
    \/ RdNet
    \/ RdNetPay

SpecText == InitText /\ [][NextText]_vars

----------------------------------------------------------------------------
(* Properties of the reader of ReceiveStream, under SpecText *)

IsPrefix(a, b) == Len(a) <= Len(b) /\ a = SubSeq(b, 1, Len(a))

\* C21: for a Text message that is UTF-8 the reader of ReceiveStream never
\* returns ErrUTF8, whatever the fragments and the sizes of the Read buffers;
\* the bytes it has returned are at every moment the leading bytes of the
\* message, and all of the message once it returned io.EOF.
C21_TextStream ==
    (peer \in ValidTextScripts /\ rd.pc = "idle" /\ rd.calls > 0) =>
        /\ rd.res.err # Err("utf8")
        /\ IsPrefix(rd.tr.got, Payloads(peer))
        /\ rd.res.err = Err("EOF") => rd.tr.got = Payloads(peer)

----------------------------------------------------------------------------
(* ClosedError and its methods, websocket.go:81-108.  A string is the      *)
(* sequence of its bytes.  The caller holds a ClosedError in lw.err and    *)
(* invokes Temporary, Timeout and Error on it, in this order.              *)

\* "websocket: connection closed", " abnormally" and ", status code "
MsgClosed == <<119,101,98,115,111,99,107,101,116,58,32,99,111,110,110,101,99,116,105,111,110,32,99,108,111,115,101,100>>
MsgAbnormally == <<32,97,98,110,111,114,109,97,108,108,121>>
MsgStatusCode == <<44,32,115,116,97,116,117,115,32,99,111,100,101,32>>

\* string('0' + d) for a digit d
Digit(d) == <<48 + d>>

(* ClosedError.Error, websocket.go:86-102 *)
errorString4(e) ==
    IF e = NoStatusCode THEN MsgClosed
    ELSE IF e = AbnormalClose THEN MsgClosed \o MsgAbnormally
    ELSE MsgClosed \o MsgStatusCode
         \o Digit((e \div 1000) % 10) \o Digit((e \div 100) % 10)
         \o Digit((e \div 10) % 10) \o Digit(e % 10)
errorString(e) ==
    IF e = NoStatusCode THEN MsgClosed
    ELSE IF e = AbnormalClose THEN MsgClosed \o MsgAbnormally
    ELSE MsgClosed \o MsgStatusCode
         \o (IF e >= 10000 THEN Digit((e \div 10000) % 10) ELSE <<>>)
         \o Digit((e \div 1000) % 10) \o Digit((e \div 100) % 10)
         \o Digit((e \div 10) % 10) \o Digit(e % 10)

(* ClosedError.Timeout and ClosedError.Temporary, websocket.go:105, 108 *)
errorTimeout(e) == FALSE
errorTemporary(e) == FALSE

\* the status codes: the 16 bits of a Close frame and of the latch
StatusCodes == 0..statusCodeMask

ErrTemporary ==
    /\ lw.pc = "temporary"
    /\ lw' = [lw EXCEPT !.pc = "timeout", !.temporary = errorTemporary(lw.err.code)]
    /\ UNCHANGED <<c, writeMutex, wire, split, peer, wireEnd, out, faults, cl, snd, sw, rd,
                   wlog, clog, tlog>>

ErrTimeout ==
    /\ lw.pc = "timeout"
    /\ lw' = [lw EXCEPT !.pc = "error", !.timeout = errorTimeout(lw.err.code)]
    /\ UNCHANGED <<c, writeMutex, wire, split, peer, wireEnd, out, faults, cl, snd, sw, rd,
                   wlog, clog, tlog>>

ErrError ==
    /\ lw.pc = "error"
    /\ lw' = [lw EXCEPT !.pc = "done", !.text = errorString(lw.err.code)]
    /\ UNCHANGED <<c, writeMutex, wire, split, peer, wireEnd, out, faults, cl, snd, sw, rd,
                   wlog, clog, tlog>>

InitError ==
    /\ c = ConnInit(0)
    /\ writeMutex = "free"
    /\ peer = <<>>
    /\ wire = <<>>
    /\ split = FALSE
    /\ wireEnd = "open"
    /\ out = <<>>
    /\ faults = MaxFaults
    /\ cl = [i \in Closers |-> [pc |-> "done", ret |-> nil, won |-> FALSE]]
    /\ snd = [pc |-> "idle", op |-> 0, msg |-> <<>>, n |-> 0, ret |-> nil,
              sc0 |-> 0, o0 |-> 0, calls |-> 0]
    /\ sw = NoStream
    /\ \E code \in StatusCodes :
         lw = [calls |-> 0, pc |-> "temporary", err |-> ClosedError(code),
               temporary |-> TRUE, timeout |-> TRUE, text |-> <<>>]
    /\ rd = RLocals
    /\ wlog = NoWrite
    /\ clog = NoClose
    /\ tlog = NoTimeout

NextError == ErrTemporary \/ ErrTimeout \/ ErrError

SpecError == InitError /\ [][NextError]_vars

----------------------------------------------------------------------------
(* Properties of ClosedError, under SpecError *)

\* the decimal numeral of n, and the same with zeros in front up to 4 digits
RECURSIVE Decimal(_)
Decimal(n) == IF n < 10 THEN <<48 + n>> ELSE Decimal(n \div 10) \o <<48 + (n % 10)>>
Padded(n) ==
    LET d == Decimal(n)
    IN [i \in 1..(4 - Len(d)) |-> 48] \o d

\* C22: for every status code of 16 bits ClosedError reports Temporary() =
\* false and Timeout() = false, and its message is "websocket: connection
\* closed" for 1005, that text and " abnormally" for 1006, and otherwise
\* that text, ", status code " and the decimal numeral of the code with
\* zeros in front up to four digits.
C22_ClosedError ==
    /\ lw.pc \in {"timeout", "error", "done"} => lw.temporary = FALSE
    /\ lw.pc \in {"error", "done"} => lw.timeout = FALSE
    /\ lw.pc = "done" =>
         lw.text = IF lw.err.code = NoStatusCode THEN MsgClosed
                   ELSE IF lw.err.code = AbnormalClose THEN MsgClosed \o MsgAbnormally
                   ELSE MsgClosed \o MsgStatusCode \o Padded(lw.err.code)

\* the messages of ClosedError(0) and of ClosedError(65535) were rendered:
\* they end in 0000 and in 65535
C22_Witness ==
    /\ lw.pc = "done"
    /\ \/ lw.err.code = 0 /\ lw.text = MsgClosed \o MsgStatusCode \o <<48, 48, 48, 48>>
       \/ lw.err.code = 65535 /\ lw.text = MsgClosed \o MsgStatusCode \o <<54, 53, 53, 51, 53>>

----------------------------------------------------------------------------
(* A Close frame arrives while another goroutine may call SendClose, and   *)
(* writes follow the Read that meets it.  The transport does not fail.     *)

\* Close frames without a payload, with one byte, with the status codes
\* 1000, 0, 1011 (and a reason), 65535, 1005, 1006 (and a reason) and
\* 1015, one with a reason that is not UTF-8, and one that follows a message
CloseScripts ==
    { <<F(Close + finalFlag, Key1, <<>>)>>,
      <<F(Close + finalFlag, Key2, <<77>>)>>,
      <<F(Close + finalFlag, Key1, <<3, 232>>)>>,
      <<F(Close + finalFlag, Key1, <<0, 0>>)>>,
      <<F(Close + finalFlag, Key2, <<3, 243, 98>>)>>,
      <<F(Close + finalFlag, Key2, <<255, 255>>)>>,
      <<F(Close + finalFlag, Key1, <<3, 237>>)>>,
      <<F(Close + finalFlag, Key2, <<3, 238, 120>>)>>,
      <<F(Close + finalFlag, Key1, <<3, 247>>)>>,
      <<F(Close + finalFlag, Key2, <<3, 232, 255>>)>>,
      <<F(Text + finalFlag, Key1, <<104, 105>>), F(Close + finalFlag, Key2, <<3, 233>>)>> }

\* the low-level Write, called after a Read or Receive returned
LwWriteNext == rd.pc = "idle" /\ rd.calls > 0 /\ LwWrite
\* the goroutine that may call SendClose at any moment
CloseCasOne == CloseCas(1)
CloseLockOne == CloseLock(1)

InitClose ==
    /\ c \in {ConnInit(accept) : accept \in Accepts}
    /\ writeMutex = "free"
    /\ peer \in CloseScripts
    /\ wire = Encode(peer)
    /\ split = TRUE
    /\ wireEnd = "open"
    /\ out = <<>>
    /\ faults = MaxFaults
    /\ cl = [i \in Closers |-> [pc |-> IF i = 1 THEN "start" ELSE "done",
                                ret |-> nil, won |-> FALSE]]
    /\ snd = [pc |-> "idle", op |-> 0, msg |-> <<>>, n |-> 0, ret |-> nil,
              sc0 |-> 0, o0 |-> 0, calls |-> 0]
    /\ sw = NoStream
    /\ lw = [calls |-> 0]
    /\ \E low \in BOOLEAN : rd = [RLocals EXCEPT !.buf = Zeros(MaxBuf), !.low = low]
    /\ wlog = NoWrite
    /\ clog = NoClose
    /\ tlog = NoTimeout

NextClose ==
    \/ CloseCasOne
    \/ CloseLockOne
    \/ RecvCallNext
    \/ ReadCall
    \/ RdNet
    \/ RdCloseLock
    \/ LwWriteNext
    \/ SendLockNext
    \/ SendWrite

SpecClose == InitClose /\ [][NextClose]_vars

----------------------------------------------------------------------------
(* Properties of a received Close frame, under SpecClose *)

\* the status code a Close frame carries
FrameStatus(f) ==
    IF Len(f.payload) < 2 THEN NoStatusCode ELSE 256 * f.payload[1] + f.payload[2]
\* the status code that was latched first: that of the SendClose of the
\* other goroutine when it found the latch unset, else that of the frame
FirstStatus == IF cl[1].won THEN CloserCode(1) ELSE FrameStatus(Subject)

\* C23: the Read (or Receive) that meets a Close frame on an open
\* connection sets the latch to the status code in the first two bytes of
\* the payload, big-endian, or to NoStatusCode when the payload has less
\* than 2 bytes, and returns the ClosedError of that code; when the latch
\* was set before, it keeps its code and the Read returns the ClosedError of
\* the earlier code.  Every Write and Send after that Read returns the same
\* ClosedError and writes nothing.
C23_ReceivedClose ==
    /\ Met => rd.res.err = ClosedError(FirstStatus)
    /\ MetBefore =>
         /\ c.statusCode = FirstStatus + statusCodeSetFlag
         /\ wlog.who # "none" => wlog.err = ClosedError(FirstStatus) /\ wlog.sent = 0
         /\ (snd.pc = "idle" /\ snd.calls > 0 /\ snd.sc0 # 0) => snd.ret = ClosedError(FirstStatus)

\* a Close frame with the status code 1011 latched it and a Write after the
\* Read returned ClosedError(1011); in another run the latch held 1000 from
\* a SendClose when the Close frame with 65535 arrived
C23_Witness ==
    /\ Met
    /\ \/ /\ Subject.payload = <<3, 243, 98>> /\ ~cl[1].won
          /\ rd.res.err = ClosedError(1011)
          /\ wlog.who = "write" /\ wlog.err = ClosedError(1011)
       \/ /\ Subject.payload = <<255, 255>> /\ cl[1].won
          /\ rd.res.err = ClosedError(NormalClose)
          /\ c.statusCode = NormalClose + statusCodeSetFlag

----------------------------------------------------------------------------
(* Send next to SendStream and its writer, under SpecStream *)

\* C24: a Send(opcode, message) that succeeds puts exactly one frame on the
\* transport, with the first byte 0x80|opcode and the payload message, also
\* when SendStream and the Write and Close of its writer are invoked by
\* another goroutine at the same time.
C24_SendFrame ==
    [][(snd.pc = "write" /\ snd'.pc = "idle" /\ snd'.ret = nil) =>
           out' = out \o WireFrame(snd.op + finalFlag, snd.msg)]_vars

----------------------------------------------------------------------------
(* ReadMode after a low-level Read, under SpecRecv *)

\* the bytes of the frame that holds the last byte consumed which the
\* reading goroutine has not consumed yet
FrameRest == Len(Encode(SubSeq(peer, 1, CurFrame))) - Consumed

\* C25: after a low-level Read that returned without an error, ReadMode
\* reports final = true if and only if the FIN bit of the last header read
\* is set and readPayloadN is 0.  While no transport read has failed,
\* readPayloadN is the number of payload bytes of that frame which are not
\* delivered yet: after a Read that returned a part of the payload and left
\* a rest, final is false, and after a Read that delivered the last byte of
\* a frame with FIN, final is true.
C25_ReadModeFinal ==
    ReadDone =>
        /\ rd.res.final <=> ((c.readHead \div finalFlag) % 2 = 1 /\ c.readPayloadN = 0)
        /\ faults = 0 =>
             /\ c.readPayloadN = FrameRest
             /\ rd.res.final <=> (IsFinal(peer[CurFrame]) /\ FrameRest = 0)

\* a Read with a buffer of one byte returned the first of the two payload
\* bytes of a final Text frame and ReadMode reported final = false; in
\* another run a Read returned the last byte of the message in three
\* fragments, of a frame without FIN, and final was false; and a Read
\* delivered the last byte of a final frame and final was true
C25_Witness ==
    /\ ReadDone /\ rd.res.n = 1 /\ faults = 0
    /\ \/ IsFinal(peer[CurFrame]) /\ FrameRest = 1 /\ ~rd.res.final
       \/ ~IsFinal(peer[CurFrame]) /\ FrameRest = 0 /\ ~rd.res.final
       \/ IsFinal(peer[CurFrame]) /\ FrameRest = 0 /\ rd.res.final

----------------------------------------------------------------------------
(* The low-level Write, retried by its caller after an error, while        *)
(* another goroutine may call SendClose.  The transport fails once.        *)
MaxRetryWrites == 3     \* Write invocations in one run

\* the sizes of the payloads the caller starts a frame with
RetrySizes == {0, 3, 126}
NoFrame == [calls |-> 0, busy |-> FALSE, full |-> <<>>, n |-> 0, o0 |-> 0,
            head |-> 0, p |-> <<>>, ret |-> [n |-> 0, err |-> nil]]

\* what the caller passes to Write: a payload, or what is left of the
\* payload of the last frame after the n bytes that Write reported done
WriteArgs ==
    {Payload(size) : size \in RetrySizes} \cup
    (IF lw.busy THEN {SubSeq(lw.full, lw.n + 1, Len(lw.full))} ELSE {})

\* c.writeBufN > 0 || c.writePayloadN > 0, websocket.go:1109
Pending(conn) == conn.writeBufN > 0 \/ conn.writePayloadN > 0

(* Write(p), websocket.go:1096-1101.  busy, full, n, o0 and head are        *)
(* history: the payload of the frame begun last, the bytes of it reported  *)
(* done, and the output and the write mode when it began.                  *)
WriteCall ==
    /\ lw.calls < MaxRetryWrites
    /\ TryLock(writeMutex)
    /\ \E p \in WriteArgs :
         \E o \in Outcomes(writeTotal(c, p)) :
            LET r == write(c, p, o.k, o.e)
                begins == ~Pending(c) /\ closeError(c) = nil
            IN /\ c' = r.c
               /\ out' = out \o r.sent
               /\ Outcome(o)
               /\ wlog' = Written("write", r)
               /\ lw' = [calls |-> lw.calls + 1,
                         busy |-> IF closeError(c) # nil THEN lw.busy
                                  ELSE r.err # nil,
                         full |-> IF begins THEN p ELSE lw.full,
                         n |-> IF begins THEN r.n ELSE lw.n + r.n,
                         o0 |-> IF begins THEN Len(out) ELSE lw.o0,
                         head |-> IF begins THEN c.writeHead ELSE lw.head,
                         p |-> p,
                         ret |-> [n |-> r.n, err |-> r.err]]
    /\ UNCHANGED <<sw, writeMutex, wire, split, peer, wireEnd, cl, snd, rd, clog, tlog>>

InitRetry ==
    /\ c = ConnInit(0)
    /\ writeMutex = "free"
    /\ peer = <<>>
    /\ wire = <<>>
    /\ split = FALSE
    /\ wireEnd = "open"
    /\ out = <<>>
    /\ faults = 0
    /\ cl = [i \in Closers |-> [pc |-> IF i = 1 THEN "start" ELSE "done",
                                ret |-> nil, won |-> FALSE]]
    /\ snd = [pc |-> "idle", op |-> 0, msg |-> <<>>, n |-> 0, ret |-> nil,
              sc0 |-> 0, o0 |-> 0, calls |-> 0]
    /\ sw = NoStream
    /\ lw = NoFrame
    /\ rd = RLocals
    /\ wlog = NoWrite
    /\ clog = NoClose
    /\ tlog = NoTimeout

NextRetry ==
    \/ LwSetWriteMode
    \/ WriteCall
    \/ CloseCasOne
    \/ CloseLockOne

SpecRetry == InitRetry /\ [][NextRetry]_vars

----------------------------------------------------------------------------
(* Properties of a Write while a frame is pending, under SpecRetry *)

\* a step that is an invocation of Write
WriteStep == lw'.calls = lw.calls + 1

\* C26: when a frame is pending (writeBufN > 0 or writePayloadN > 0) and
\* Write is given a p with len(p) other than writePayloadN, it returns
\* (0, errRetry), writes nothing and leaves the state of the frame as it
\* is; and a Write that then is given a p with len(p) equal to
\* writePayloadN and succeeds has completed the frame: the transport holds
\* its header followed by its payload.
C26_RejectedRetry ==
    [][/\ (WriteStep /\ Pending(c) /\ Len(lw'.p) # c.writePayloadN) =>
             /\ lw'.ret = [n |-> 0, err |-> errRetry]
             /\ out' = out
             /\ c' = c
       /\ (WriteStep /\ Pending(c) /\ Len(lw'.p) = c.writePayloadN
             /\ lw'.ret.err = nil) =>
             SubSeq(out', lw.o0 + 1, Len(out')) = WireFrame(lw.head, lw.full)]_vars

----------------------------------------------------------------------------
(* The Close notification of SendClose, under SpecClose *)

\* a step in which a SendClose hands its Close frame to the transport
Notifies == clog'.frames = clog.frames + 1
\* the bytes the step puts on the transport
Notification == SubSeq(out', Len(out) + 1, Len(out'))
\* the reason given to the SendClose of the step: that of the goroutine
\* that calls SendClose, or the bytes after the status code of the Close
\* frame that the reading goroutine met
GivenReason ==
    IF cl'[1].pc # cl[1].pc THEN CloserReason(1)
    ELSE SubSeq(Subject.payload, 3, Len(Subject.payload))

\* C27: the Close notification that SendClose writes starts with the byte
\* 0x88, followed by the length of its body; the body is empty when the
\* status that was latched is 1005, 1006 or 1015, and otherwise it is the
\* status code in 2 bytes, big-endian, followed by the reason (which
\* SendClose drops when it is not UTF-8 or longer than 123 bytes); the codes
\* 1005 and 1006 are in no body.
C27_CloseBody ==
    [][Notifies =>
         LET code == c'.statusCode % (statusCodeMask + 1)
             body == SubSeq(Notification, 3, Len(Notification))
         IN /\ Len(Notification) >= 2
            /\ Notification[1] = 136
            /\ Notification[2] = Len(body)
            /\ code \in {1005, 1006, 1015} => body = <<>>
            /\ code \notin {1005, 1006, 1015} =>
                 /\ Len(body) >= 2
                 /\ 256 * body[1] + body[2] = code
                 /\ SubSeq(body, 3, Len(body))
                      = (IF utf8Valid(GivenReason) THEN GivenReason ELSE <<>>)
            /\ Len(body) >= 2 => 256 * body[1] + body[2] \notin {1005, 1006}]_vars

\* the peer's Close frame with the code 1006 and a reason was answered with
\* the bytes 0x88 0x00, and in another run the one with 1011 and the reason
\* "b" with 0x88 0x03 0x03 0xF3 0x62
C27_Witness ==
    /\ clog.frames = 1
    /\ \/ c.statusCode = AbnormalClose + statusCodeSetFlag
          /\ Subject.payload = <<3, 238, 120>> /\ out = <<136, 0>>
       \/ c.statusCode = 1011 + statusCodeSetFlag
          /\ Subject.payload = <<3, 243, 98>> /\ out = <<136, 3, 3, 243, 98>>

----------------------------------------------------------------------------
(* All writers of the connection at once: Send, the stream writer, the     *)
(* low-level SetWriteMode and Write, the Pong replies and the Close        *)
(* notifications of the reading goroutine and of a goroutine that calls    *)
(* SendClose.  The transport does not fail.                                *)

\* the arguments of the low-level SetWriteMode: control opcodes without
\* final, an opcode above 15 and one with the bits of RSV1-3
HeadModes == {<<Ping, FALSE>>, <<25, TRUE>>, <<113, FALSE>>}

MaxHeadWrites == 1

\* the low-level calls come first: they are not made while Send, the
\* stream writer, Receive or SendClose run
HighIdle ==
    /\ snd.calls = 0 /\ sw = NoStream /\ rd.calls = 0 /\ cl[1].pc = "start"
    /\ lw.calls < MaxHeadWrites

(* SetWriteMode(opcode, final), websocket.go:1081-1090 *)
SetModeCall ==
    /\ HighIdle
    /\ \E m \in HeadModes :
         /\ c.writeHead # SetWriteMode(m[1], m[2])
         /\ c' = [c EXCEPT !.writeHead = SetWriteMode(m[1], m[2])]
    /\ UNCHANGED <<sw, writeMutex, wire, split, peer, wireEnd, out, faults, cl, snd, lw, rd,
                   wlog, clog, tlog>>

(* Write(p), websocket.go:1103-1176 *)
HeadWrite == HighIdle /\ WriteCall

\* what the peer sends: a Ping inside a message, a Ping without payload and
\* a Close frame
HeadScripts ==
    { <<F(Text, Key1, <<104>>), F(Ping + finalFlag, Key1, <<46>>),
        F(Continuation + finalFlag, Key2, <<105, 33>>)>>,
      <<F(Ping + finalFlag, Key2, <<>>),
        F(Close + finalFlag, Key2, <<3, 243, 98>>)>> }

InitHeads ==
    /\ c = ConnInit(0)
    /\ writeMutex = "free"
    /\ peer \in HeadScripts
    /\ wire = Encode(peer)
    /\ split = FALSE
    /\ wireEnd = "open"
    /\ out = <<>>
    /\ faults = MaxFaults
    /\ cl = [i \in Closers |-> [pc |-> IF i = 1 THEN "start" ELSE "done",
                                ret |-> nil, won |-> FALSE]]
    /\ snd = [pc |-> "idle", op |-> 0, msg |-> <<>>, n |-> 0, ret |-> nil,
              sc0 |-> 0, o0 |-> 0, calls |-> 0]
    /\ sw = NoStream
    /\ lw = NoFrame
    /\ rd = [RLocals EXCEPT !.buf = Zeros(MaxBuf)]
    /\ wlog = NoWrite
    /\ clog = NoClose
    /\ tlog = NoTimeout

NextHeads ==
    \/ SetModeCall
    \/ HeadWrite
    \/ SendLock
    \/ SendWrite
    \/ SendStream
    \/ StreamLock
    \/ StreamCloseLock
    \/ StreamWrite
    \/ RecvCall
    \/ RdNet
    \/ RdPongLock
    \/ RdCloseLock
    \/ CloseCasOne
    \/ CloseLockOne

SpecHeads == InitHeads /\ [][NextHeads]_vars

----------------------------------------------------------------------------
(* Properties of the frame headers on the transport, under SpecHeads *)

\* the number of header bytes of the frame that b starts with
HeaderLen(b) == IF b[2] % 128 = 126 THEN 4 ELSE 2
\* the payload length its header announces
PayloadLen(b) == IF b[2] % 128 = 126 THEN 256 * b[3] + b[4] ELSE b[2] % 128
\* the header of every frame in b has RSV1-3 = 0 and MASK = 0, and FIN = 1
\* when the opcode is a control opcode
RECURSIVE HeadersWellFormed(_)
HeadersWellFormed(b) ==
    IF b = <<>> THEN TRUE
    ELSE /\ Len(b) >= 2
         /\ (b[1] \div 16) % 8 = 0
         /\ b[2] < 128
         /\ b[1] % 16 >= 8 => b[1] >= 128
         /\ Len(b) >= HeaderLen(b) + PayloadLen(b)
         /\ HeadersWellFormed(SubSeq(b, HeaderLen(b) + PayloadLen(b) + 1, Len(b)))

\* C28: every frame header that Send, the stream writer, the low-level
\* Write, a Pong reply and a Close notification put on the transport has
\* RSV1-3 = 0 and MASK = 0, and every frame with a control opcode has
\* FIN = 1; SetWriteMode with final = false stores an opcode without the
\* control bit.
C28_Headers ==
    /\ HeadersWellFormed(out)
    /\ c.writeHead < 128 => c.writeHead < 8
    /\ c.writeHead >= 128 => c.writeHead < 144

\* a Pong, a Ping of Send, a fragment of the stream and a frame written
\* after SetWriteMode(Ping, false), with the opcode 1 and without FIN, are
\* on the transport
C28_Witness ==
    /\ \E i \in 1..Len(Heads(out)) : Heads(out)[i] = Pong + finalFlag
    /\ \E i \in 1..Len(Heads(out)) : Heads(out)[i] = Ping + finalFlag
    /\ \E i \in 1..Len(Heads(out)) : Heads(out)[i] = StreamOpcode
    /\ \E i \in 1..Len(Heads(out)) : Heads(out)[i] = 1
    /\ lw.calls > 0 /\ lw.head = 1

----------------------------------------------------------------------------
(* The delay of the retry loops of writeWithRetry and readWithRetry.  The  *)
(* transport fails with temporary errors as often as MaxRetries allows;    *)
(* snd holds the locals of writeWithRetry and rd those of readWithRetry.   *)

MaxRetries == 24    \* temporary errors in a row in one retry loop

\* time.Duration counts nanoseconds
Microsecond == 1000
Second == 1000000000

\* if retryDelay < time.Second { retryDelay *= 2 }
nextDelayAlways(retryDelay) == 2 * retryDelay
nextDelay(retryDelay) ==
    IF retryDelay < Second THEN 2 * retryDelay ELSE retryDelay

\* what a write or a read of the transport ends with
RetryOutcomes(sleeps) ==
    {nil, Err("timeout"), Err("fatal")}
        \cup (IF sleeps < MaxRetries THEN {Err("temporary")} ELSE {})

NoLoop == [pc |-> "idle", retryDelay |-> 0, slept |-> 0, sleeps |-> 0, err |-> nil]

(* writeWithRetry, websocket.go:220-223: retryDelay and the first write *)
WriteWithRetry ==
    /\ snd.pc = "idle"
    /\ \E e \in RetryOutcomes(0) :
         snd' = [NoLoop EXCEPT !.pc = "loop", !.retryDelay = Microsecond, !.err = e]
    /\ UNCHANGED <<c, writeMutex, wire, split, peer, wireEnd, out, faults, cl, sw, lw, rd,
                   wlog, clog, tlog>>

(* writeWithRetry, websocket.go:224-244: one pass of the loop *)
WriteRetry ==
    /\ snd.pc = "loop"
    /\ IF IsTimeout(snd.err)
       THEN /\ c' = setClose(c, Policy)
            /\ snd' = [snd EXCEPT !.pc = "done"]
       ELSE IF snd.err = nil \/ IsFatal(snd.err)
       THEN /\ snd' = [snd EXCEPT !.pc = "done"]
            /\ c' = c
       ELSE /\ \E e \in RetryOutcomes(snd.sleeps + 1) :
                  snd' = [snd EXCEPT !.slept = snd.retryDelay,
                                     !.sleeps = snd.sleeps + 1,
                                     !.retryDelay = nextDelay(snd.retryDelay),
                                     !.err = e]
            /\ c' = c
    /\ UNCHANGED <<writeMutex, wire, split, peer, wireEnd, out, faults, cl, sw, lw, rd,
                   wlog, clog, tlog>>

(* readWithRetry, websocket.go:406-411: retryDelay and the first Read *)
ReadWithRetry ==
    /\ rd.pc = "idle"
    /\ \E e \in RetryOutcomes(0) :
         rd' = [NoLoop EXCEPT !.pc = "loop", !.retryDelay = Microsecond, !.err = e]
    /\ UNCHANGED <<c, writeMutex, wire, split, peer, wireEnd, out, faults, cl, snd, sw, lw,
                   wlog, clog, tlog>>

(* readWithRetry, websocket.go:412-429: one pass of the inner loop; the    *)
(* read timeout makes SendClose(Policy, "read timeout")                    *)
ReadRetry ==
    /\ rd.pc = "loop"
    /\ IF IsTimeout(rd.err)
       THEN /\ c' = setClose(c, Policy)
            /\ out' = IF casClose(c, Policy).ok
                      THEN out \o CloseFrame(Policy, ReasonReadTimeout) ELSE out
            /\ rd' = [rd EXCEPT !.pc = "done"]
       ELSE IF rd.err = nil \/ IsFatal(rd.err)
       THEN /\ rd' = [rd EXCEPT !.pc = "done"]
            /\ UNCHANGED <<c, out>>
       ELSE /\ \E e \in RetryOutcomes(rd.sleeps + 1) :
                  rd' = [rd EXCEPT !.slept = rd.retryDelay,
                                   !.sleeps = rd.sleeps + 1,
                                   !.retryDelay = nextDelay(rd.retryDelay),
                                   !.err = e]
            /\ UNCHANGED <<c, out>>
    /\ UNCHANGED <<writeMutex, wire, split, peer, wireEnd, faults, cl, snd, sw, lw,
                   wlog, clog, tlog>>

InitDelay ==
    /\ c = ConnInit(0)
    /\ writeMutex = "free"
    /\ peer = <<>>
    /\ wire = <<>>
    /\ split = FALSE
    /\ wireEnd = "open"
    /\ out = <<>>
    /\ faults = 0
    /\ cl = [i \in Closers |-> [pc |-> "done", ret |-> nil, won |-> FALSE]]
    /\ snd = NoLoop
    /\ sw = NoStream
    /\ lw = NoFrame
    /\ rd = NoLoop
    /\ wlog = NoWrite
    /\ clog = NoClose
    /\ tlog = NoTimeout

NextDelay == WriteWithRetry \/ WriteRetry \/ ReadWithRetry \/ ReadRetry

SpecDelay == InitDelay /\ [][NextDelay]_vars

----------------------------------------------------------------------------
(* Properties of the retry delay, under SpecDelay *)

RECURSIVE Pow2(_)
Pow2(k) == IF k = 0 THEN 1 ELSE 2 * Pow2(k - 1)

\* the loops that have slept
Slept == {l \in {snd, rd} : l.sleeps > 0}

\* C29 as stated: the first delay is 1 microsecond, every delay is twice
\* the one before, and no delay is longer than 1 second.
C29_DelayCapped ==
    \A l \in Slept :
        /\ l.sleeps = 1 => l.slept = Microsecond
        /\ l.slept <= Second
        /\ l.retryDelay \in {2 * l.slept, Second}

\* C29: the first delay is 1 microsecond; the delay doubles after each
\* retry for as long as it is below 1 second, so the delays are 1, 2, 4,
\* ... microseconds up to 2^20 microseconds = 1.048576 s, which is the
\* delay of the 21st and of every later retry and is never exceeded.
C29_Delay ==
    \A l \in Slept :
        /\ l.slept = Microsecond * Pow2(IF l.sleeps <= 21 THEN l.sleeps - 1 ELSE 20)
        /\ l.slept <= 1048576 * Microsecond
        /\ l.retryDelay = Microsecond * Pow2(IF l.sleeps <= 20 THEN l.sleeps ELSE 20)

\* both loops have slept more than 21 times, the last time for 1.048576 s
C29_Witness ==
    /\ snd.sleeps > 21 /\ snd.slept = 1048576000
    /\ rd.sleeps > 21 /\ rd.slept = 1048576000

----------------------------------------------------------------------------
(* Receive with buffers as long as the message, one byte shorter and one   *)
(* byte longer.  The transport does not fail.                              *)

\* one message of three bytes (and one of four) in different fragmentations
FillScripts ==
    { <<F(Binary + finalFlag, Key1, <<1, 2, 3>>)>>,
      <<F(Binary, Key2, <<1, 2>>), F(Continuation + finalFlag, Key1, <<3>>)>>,
      <<F(Binary, Key2, <<1, 2>>), F(Continuation, Key1, <<3>>),
        F(Continuation + finalFlag, Key1, <<>>)>>,
      <<F(Binary, Key1, <<>>), F(Continuation + finalFlag, Key2, <<1, 2, 3>>)>>,
      <<F(Text, Key1, <<104>>), F(Ping + finalFlag, Key1, <<46>>),
        F(Continuation + finalFlag, Key2, <<105, 33>>)>>,
      <<F(Binary, Key2, <<1, 2>>), F(Continuation + finalFlag, Key1, <<3, 4>>)>> }

FillLens == {MaxBuf - 2, MaxBuf - 1, MaxBuf}

InitFill ==
    /\ c = ConnInit(0)
    /\ writeMutex = "free"
    /\ peer \in FillScripts
    /\ wire = Encode(peer)
    /\ split \in BOOLEAN
    /\ wireEnd = "open"
    /\ out = <<>>
    /\ faults = MaxFaults
    /\ cl = [i \in Closers |-> [pc |-> "done", ret |-> nil, won |-> FALSE]]
    /\ snd = [pc |-> "idle", op |-> 0, msg |-> <<>>, n |-> 0, ret |-> nil,
              sc0 |-> 0, o0 |-> 0, calls |-> 0]
    /\ sw = NoStream
    /\ lw = [calls |-> 0]
    /\ \E len \in FillLens : rd = [RLocals EXCEPT !.buf = Zeros(len)]
    /\ wlog = NoWrite
    /\ clog = NoClose
    /\ tlog = NoTimeout

NextFill ==
    \/ RecvCall
    \/ RdNet
    \/ RdNetPay
    \/ RdCloseLock
    \/ RdPongLock

SpecFill == InitFill /\ [][NextFill]_vars

----------------------------------------------------------------------------
(* Properties of Receive and the length of its buffer, under SpecFill *)

\* Receive has returned
Returned == rd.pc = "idle" /\ ~rd.low /\ rd.calls > 0

\* C30: Receive returns ErrOverflow, and closes with TooBig, only when the
\* message is longer than the buffer; a message that is not longer than the
\* buffer is returned in full with a nil error, whatever its fragments are.
C30_OverflowOnlyWhenLarger ==
    Returned =>
        /\ rd.res.err = Err("overflow") => Len(Message) > Len(rd.buf)
        /\ c.statusCode = TooBig + statusCodeSetFlag => Len(Message) > Len(rd.buf)
        /\ Len(Message) <= Len(rd.buf) =>
             /\ rd.res.err = nil
             /\ rd.res.n = Len(Message)
             /\ SubSeq(rd.buf, 1, rd.res.n) = Message

----------------------------------------------------------------------------
(* A Send, the Pong replies and Close notifications of Receive and a       *)
(* SendClose on a transport that fails once in a run.                      *)

\* what the peer sends: Pings before a message, and a Ping before a Close
OrderScripts ==
    { <<F(Ping + finalFlag, Key2, <<46>>), F(Text + finalFlag, Key1, <<104>>)>>,
      <<F(Ping + finalFlag, Key1, <<>>), F(Close + finalFlag, Key2, <<3, 232>>)>> }

InitOrder ==
    /\ c = ConnInit(0)
    /\ writeMutex = "free"
    /\ peer \in OrderScripts
    /\ wire = Encode(peer)
    /\ split = FALSE
    /\ wireEnd = "open"
    /\ out = <<>>
    /\ faults = 0
    /\ cl = [i \in Closers |-> [pc |-> IF i = 1 THEN "start" ELSE "done",
                                ret |-> nil, won |-> FALSE]]
    /\ snd = [pc |-> "idle", op |-> 0, msg |-> <<>>, n |-> 0, ret |-> nil,
              sc0 |-> 0, o0 |-> 0, calls |-> 0]
    /\ sw = NoStream
    /\ lw = [calls |-> 0]
    /\ rd = [RLocals EXCEPT !.buf = Zeros(MaxBuf)]
    /\ wlog = NoWrite
    /\ clog = NoClose
    /\ tlog = NoTimeout

NextOrder ==
    \/ SendLock
    \/ SendWrite
    \/ RecvCall
    \/ RdNet
    \/ RdPongLock
    \/ RdPongRetry
    \/ RdCloseLock
    \/ CloseCasOne
    \/ CloseLockOne

SpecOrder == InitOrder /\ [][NextOrder]_vars

----------------------------------------------------------------------------
(* Properties of the order of the frames on the transport, under SpecOrder *)

\* a step that puts the first bytes of a frame on the transport: the Pong
\* of gotCtrl, the Close frame of SendClose, and the write of Send when no
\* frame is pending
StartsFrame ==
    /\ out' # out
    /\ \/ rd.pc = "pong_lock" /\ rd'.pc # "pong_lock"
       \/ rd.pc = "sc_lock" /\ rd'.pc # "sc_lock"
       \/ cl[1].pc = "lock" /\ cl'[1].pc = "done"
       \/ snd.pc = "write" /\ snd' # snd /\ snd.n = 0 /\ NoPending(c)

\* C31: the bytes of each frame are contiguous on the transport: no data
\* frame, Pong or Close frame starts while the frame before it has been
\* written in part only, also after a Send gave up inside its frame.
C31_Contiguous == [][StartsFrame => HeadersWellFormed(out)]_vars

----------------------------------------------------------------------------
(* The echo of TestFragment, conn_test.go:281-352: each frame is read with *)
(* the low-level Read and written back with SetWriteMode(ReadMode()) and   *)
(* Write.  The peer writes the message at once, the transport does not     *)
(* fail.                                                                   *)

\* the payloads of the fragments, as in GoldenFragments
EchoPayloads == {<<>>, <<7>>, <<104, 105>>}
\* fragmented messages of two and of three frames
EchoScripts ==
    { <<F(op, Key1, a), F(Continuation + finalFlag, Key1, b)>> :
          op \in {Text, Binary}, a \in EchoPayloads, b \in EchoPayloads }
    \cup { <<F(op, Key1, a), F(Continuation, Key2, <<7>>),
             F(Continuation + finalFlag, Key1, b)>> :
          op \in {Text, Binary}, a \in EchoPayloads, b \in EchoPayloads }

(* n, err := conn.Read(buf[:]), conn_test.go:309, after the echo of the    *)
(* frame before                                                            *)
EchoRead == lw.calls = rd.calls /\ ReadCall

(* opcode, final := conn.ReadMode(); conn.SetWriteMode(opcode, final);     *)
(* conn.Write(buf[:n]), conn_test.go:323-325                               *)
Echo ==
    /\ rd.pc = "idle"
    /\ rd.calls > lw.calls
    /\ rd.res.err = nil
    /\ LET p == SubSeq(rd.buf, 1, rd.res.n)
           c1 == [c EXCEPT !.writeHead = SetWriteMode(ReadModeOpcode(c), ReadModeFinal(c))]
           r == write(c1, p, writeTotal(c1, p), nil)
       IN /\ c' = r.c
          /\ out' = out \o r.sent
          /\ wlog' = Written("write", r)
    /\ lw' = [lw EXCEPT !.calls = lw.calls + 1]
    /\ UNCHANGED <<sw, writeMutex, wire, split, peer, wireEnd, faults, cl, snd, rd, clog, tlog>>

InitEcho ==
    /\ c = ConnInit(0)
    /\ writeMutex = "free"
    /\ peer \in EchoScripts
    /\ wire = Encode(peer)
    /\ split = FALSE
    /\ wireEnd = "open"
    /\ out = <<>>
    /\ faults = MaxFaults
    /\ cl = [i \in Closers |-> [pc |-> "done", ret |-> nil, won |-> FALSE]]
    /\ snd = [pc |-> "idle", op |-> 0, msg |-> <<>>, n |-> 0, ret |-> nil,
              sc0 |-> 0, o0 |-> 0, calls |-> 0]
    /\ sw = NoStream
    /\ lw = [calls |-> 0]
    /\ rd = [RLocals EXCEPT !.buf = Zeros(MaxBuf), !.low = TRUE]
    /\ wlog = NoWrite
    /\ clog = NoClose
    /\ tlog = NoTimeout

NextEcho == EchoRead \/ RdNet \/ Echo

SpecEcho == InitEcho /\ [][NextEcho]_vars

----------------------------------------------------------------------------
(* Properties of the echo, under SpecEcho *)

\* the first k frames of the peer without their masks
RECURSIVE Unmasked(_)
Unmasked(k) ==
    IF k = 0 THEN <<>>
    ELSE Unmasked(k - 1) \o BareFrame(peer[k].head, peer[k].payload)

\* C32: when every frame of a fragmented message is read whole by one Read
\* and written back with SetWriteMode(ReadMode()) and Write, the frames on
\* the transport are the frames received without their masks: the same
\* first byte, the same payload.
C32_Echo ==
    /\ rd.pc = "idle" /\ rd.calls > 0 =>
         /\ rd.res.err = nil
         /\ SubSeq(rd.buf, 1, rd.res.n) = peer[rd.calls].payload
    /\ out = Unmasked(lw.calls)

\* a message of three fragments, the first and the last with a payload,
\* has been echoed
C32_Witness ==
    /\ lw.calls = 3 /\ Len(peer) = 3
    /\ peer[1].payload = <<104, 105>> /\ peer[3].payload = <<7>>
    /\ out = <<Text, 2, 104, 105, Continuation, 1, 7, finalFlag, 1, 7>>

----------------------------------------------------------------------------
(* The sequence validation of the earlier nextFrame, websocket.go:806-825  *)
(* (and conn.go:311-330).  The peer sends frames that are valid one by     *)
(* one: masked, without reserved bits, control frames final and without    *)
(* payload.  rd holds readHead, the number of frames nextFrame has seen    *)
(* and its return; statusCode is the latch of WriteClose.                  *)

MaxSeq == 3         \* frames the peer sends in one run

headSetFlag == 256
ReasonInterrupted == <<102, 114, 97, 103, 109, 101, 110, 116, 101, 100, 32, 109, 101, 115, 115, 97, 103, 101, 32, 105, 110, 116, 101, 114, 114, 117, 112, 116, 101, 100>>
ReasonContinuation == <<99, 111, 110, 116, 105, 110, 117, 97, 116, 105, 111, 110, 32, 111, 102, 32, 102, 105, 110, 97, 108, 32, 109, 101, 115, 115, 97, 103, 101>>

\* the sequence validation: the reason of the ProtocolError, <<>> for none
sequenceValidation(lastHead, head) ==
    IF (lastHead \div headSetFlag) % 2 = 1
    THEN IF (lastHead \div finalFlag) % 2 = 0
         THEN IF head % (opcodeMask + 1) # Continuation /\ (head \div ctrlFlag) % 2 = 0
              THEN ReasonInterrupted ELSE <<>>
         ELSE IF head % (opcodeMask + 1) = Continuation
              THEN ReasonContinuation ELSE <<>>
    ELSE <<>>

SeqHeads == {Text, Text + finalFlag, Continuation, Continuation + finalFlag,
             Ping + finalFlag}
SeqScripts ==
    UNION { [1..n -> {F(h, Key1, <<>>) : h \in SeqHeads}] : n \in 1..MaxSeq }

NoSeq == [pc |-> "idle", readHead |-> 0, i |-> 0, err |-> nil, statusCode |-> 0,
          reason |-> <<>>]

(* nextFrame on the next frame of the peer, websocket.go:800-828 *)
SeqNextFrame ==
    /\ rd.pc = "idle"
    /\ rd.err = nil
    /\ rd.i < Len(peer)
    /\ LET head == peer[rd.i + 1].head
           reason == sequenceValidation(rd.readHead, head)
       IN rd' = IF reason = <<>>
                THEN [rd EXCEPT !.readHead = head + headSetFlag, !.i = rd.i + 1]
                ELSE [rd EXCEPT !.readHead = head + headSetFlag, !.i = rd.i + 1,
                                !.err = ClosedError(ProtocolError),
                                !.statusCode = ProtocolError,
                                !.reason = reason, !.pc = "notify"]
    /\ UNCHANGED <<c, writeMutex, wire, split, peer, wireEnd, out, faults, cl, snd, sw, lw,
                   wlog, clog, tlog>>

(* the goroutine of WriteClose, websocket.go:575-592: Close & finalFlag is *)
(* the first byte of its frame                                             *)
SeqNotify ==
    /\ rd.pc = "notify"
    /\ TryLock(writeMutex)
    /\ out' = out \o <<0, Len(rd.reason) + 2>> \o BE16(rd.statusCode) \o rd.reason
    /\ rd' = [rd EXCEPT !.pc = "idle"]
    /\ UNCHANGED <<c, writeMutex, wire, split, peer, wireEnd, faults, cl, snd, sw, lw,
                   wlog, clog, tlog>>

InitSeq ==
    /\ c = ConnInit(0)
    /\ writeMutex = "free"
    /\ peer \in SeqScripts
    /\ wire = <<>>
    /\ split = FALSE
    /\ wireEnd = "open"
    /\ out = <<>>
    /\ faults = MaxFaults
    /\ cl = [i \in Closers |-> [pc |-> "done", ret |-> nil, won |-> FALSE]]
    /\ snd = [pc |-> "idle", op |-> 0, msg |-> <<>>, n |-> 0, ret |-> nil,
              sc0 |-> 0, o0 |-> 0, calls |-> 0]
    /\ sw = NoStream
    /\ lw = [calls |-> 0]
    /\ rd = NoSeq
    /\ wlog = NoWrite
    /\ clog = NoClose
    /\ tlog = NoTimeout

NextSeq == SeqNextFrame \/ SeqNotify

SpecSeq == InitSeq /\ [][NextSeq]_vars

----------------------------------------------------------------------------
(* Properties of the sequence validation, under SpecSeq *)

\* a fragmented message is open after the first k frames of the peer
RECURSIVE Open(_)
Open(k) ==
    IF k = 0 THEN FALSE
    ELSE IF (peer[k].head \div ctrlFlag) % 2 = 1 THEN Open(k - 1)
    ELSE peer[k].head < finalFlag

\* frame k breaks the framing: a data frame that starts a message while one
\* is open, or a Continuation frame while none is open
Breaks(k) ==
    /\ (peer[k].head \div ctrlFlag) % 2 = 0
    /\ (peer[k].head % (opcodeMask + 1) = Continuation) # Open(k - 1)

\* C33: nextFrame returns the ProtocolError for exactly the frames that break
\* the framing of the messages; a Continuation frame that follows a Ping
\* inside a fragmented message is not rejected.
C33_SequenceValidation ==
    rd.i > 0 => ((rd.err = ClosedError(ProtocolError)) <=> Breaks(rd.i))

----------------------------------------------------------------------------
(* The pull parser, read_test.go:112-311: a Reader over a buffer of        *)
(* len(buf) bytes, filled by ReadSome and parsed by NextFrame.             *)
(* rd holds the Reader: data is buf[:bufN], cap is len(buf); ret is what   *)
(* the last NextFrame returned, k the number of frames it has returned and *)
(* op the last call.  wire is what conn has left to deliver.               *)

MaxPullFrames == 2  \* frames the peer sends in one run

ErrUnderflow == Err("underflow")
ErrPullOverflow == Err("overflow")
ErrReserved == Err("reserved")

\* a frame of the peer: its length is encoded in 7, 16 or 64 bits, also
\* when fewer bits would do
P(head, bits, key, payload) ==
    [head |-> head, bits |-> bits, key |-> key, payload |-> payload]
PullEncode(f) ==
    LET m == IF f.key = <<>> THEN 0 ELSE maskFlag
        data == IF f.key = <<>> THEN f.payload ELSE PeerMask(f.key, f.payload)
    IN IF f.bits = 7 THEN <<f.head, m + Len(f.payload)>> \o f.key \o data
       ELSE IF f.bits = 16
       THEN <<f.head, m + 126>> \o BE16(Len(f.payload)) \o f.key \o data
       ELSE <<f.head, m + 127>> \o BE64(Len(f.payload)) \o f.key \o data
RECURSIVE PullWire(_)
PullWire(fs) == IF fs = <<>> THEN <<>> ELSE PullEncode(Head(fs)) \o PullWire(Tail(fs))

PullFrames ==
    { P(Text + finalFlag, 7, Key1, <<104, 105>>),
      P(Ping + finalFlag, 7, <<>>, <<>>),
      P(Binary, 7, <<>>, <<1, 2, 3, 4, 5, 6, 7>>),
      P(Continuation, 16, Key2, <<7>>),
      P(Continuation + finalFlag, 16, <<>>, <<9, 8>>),
      P(Binary, 64, <<>>, <<1, 2, 3>>),
      P(Binary + finalFlag, 64, <<>>, <<1, 2, 3, 4, 5, 6, 7, 8, 9, 10, 11, 12, 13>>),
      P(Text + finalFlag, 64, Key1, <<72, 101, 108, 108, 111, 32, 87, 111, 114>>),
      P(Text + finalFlag + 64, 7, Key2, <<33>>) }
PullScripts == UNION { [1..n -> PullFrames] : n \in 1..MaxPullFrames }
\* len(buf)
PullCaps == {8, 12, 1040}

\* binary.BigEndian.Uint16 and Uint64
RECURSIVE Uint(_)
Uint(b) == IF b = <<>> THEN 0 ELSE 256 * Uint(SubSeq(b, 1, Len(b) - 1)) + b[Len(b)]

(* xorWith, read_test.go:295-311: words of 8 and of 4 bytes, then the rest *)
xorWithFirst(p, key) == [j \in 1..Len(p) |-> Xor(p[j], key[1])]
xorWith(p, key) ==
    LET words == 8 * (Len(p) \div 8)
        word == IF Len(p) - words > 3 THEN 4 ELSE 0
    IN [j \in 1..Len(p) |->
          IF j <= words THEN Xor(p[j], key[((j - 1) % 4) + 1])
          ELSE IF j <= words + word THEN Xor(p[j], key[j - words])
          ELSE Xor(p[j], key[j - words - word])]

(* Reader.passFrame, read_test.go:143-151 *)
passFrame(r) ==
    IF r.next < r.bufN THEN [r EXCEPT !.bufI = r.next]
    ELSE [r EXCEPT !.bufI = 0, !.bufN = 0, !.next = 0, !.buf = <<>>]

(* Reader.IsFinal and Reader.Opcode, read_test.go:179-196 *)
PullIsFinal(r) == r.buf[r.bufI + 1] >= finalFlag
PullOpcode(r) == r.buf[r.bufI + 1] % 16

\* the header NextFrame reads: where the payload starts and whether the
\* frame has a mask key, read_test.go:214-268
pullOffset(i, sizeHead) ==
    IF sizeHead < 126 THEN i + 2
    ELSE IF sizeHead = 126 THEN i + 4
    ELSE IF sizeHead = 126 + 128 THEN i + 8
    ELSE IF sizeHead = 127 THEN i + 10
    ELSE IF sizeHead = 127 + 128 THEN i + 14
    ELSE i + 6

Underflow(r) == [r EXCEPT !.ret = [payload |-> <<>>, err |-> ErrUnderflow], !.op = "next"]
Overflow(r) == [r EXCEPT !.ret = [payload |-> <<>>, err |-> ErrPullOverflow], !.op = "next"]

(* Reader.NextFrame, read_test.go:203-293 *)
pullNextFrame(r0) ==
    LET r == IF r0.next > 0 THEN passFrame(r0) ELSE r0
        i == r.bufI
    IN IF i + 1 >= r.bufN THEN Underflow(r)
       ELSE
       LET sizeHead == r.buf[i + 2]
           offset == pullOffset(i, sizeHead)
       IN IF sizeHead >= 126 /\ offset > r.bufN THEN Underflow(r)
          ELSE
          LET wide == sizeHead % 128 = 127
              byteN == IF sizeHead % 128 = 126 THEN Uint(SubSeq(r.buf, i + 3, i + 4))
                       ELSE IF wide THEN Uint(SubSeq(r.buf, i + 3, i + 10))
                       ELSE sizeHead % 128
              end == offset + byteN
          IN IF wide /\ byteN > r.cap THEN Overflow(r)
             ELSE IF end > r.bufN THEN Underflow(r)
             ELSE
             LET raw == SubSeq(r.buf, offset + 1, end)
                 payload == IF sizeHead >= 128
                            THEN xorWith(raw, SubSeq(r.buf, offset - 3, offset))
                            ELSE raw
             IN [r EXCEPT !.buf = SubSeq(r.buf, 1, offset) \o payload
                                      \o SubSeq(r.buf, end + 1, r.bufN),
                          !.next = end,
                          !.k = r.k + 1,
                          !.op = "next",
                          !.ret = [payload |-> payload,
                                   err |-> IF (r.buf[r.bufI + 1] \div 16) % 8 # 0
                                           THEN ErrReserved ELSE nil]]

PullNextFrame ==
    /\ rd' = pullNextFrame(rd)
    /\ UNCHANGED <<c, writeMutex, wire, split, peer, wireEnd, out, faults, cl, snd, sw, lw,
                   wlog, clog, tlog>>

\* move to buffer start, read_test.go:162-167
pullCompact(r) ==
    IF r.bufI > 0 /\ r.cap - r.bufN < 1024
    THEN [r EXCEPT !.buf = SubSeq(r.buf, r.bufI + 1, r.bufN), !.bufN = r.bufN - r.bufI,
                   !.next = r.next - r.bufI, !.bufI = 0]
    ELSE r

(* Reader.ReadSome, read_test.go:155-177, with a conn that delivers n > 0  *)
(* bytes without an error, or is not read because the buffer is full       *)
ReadSome ==
    LET r == pullCompact(rd)
    IN /\ IF r.bufN < r.cap
          THEN \E n \in 1..Min(r.cap - r.bufN, Len(wire)) :
                  /\ rd' = [r EXCEPT !.buf = r.buf \o SubSeq(wire, 1, n),
                                     !.bufN = r.bufN + n, !.op = "read"]
                  /\ wire' = SubSeq(wire, n + 1, Len(wire))
          ELSE /\ rd' = [r EXCEPT !.op = "read"]
               /\ wire' = wire
       /\ UNCHANGED <<c, writeMutex, split, peer, wireEnd, out, faults, cl, snd, sw, lw,
                      wlog, clog, tlog>>

InitPull ==
    /\ c = ConnInit(0)
    /\ writeMutex = "free"
    /\ peer \in PullScripts
    /\ wire = PullWire(peer)
    /\ split = TRUE
    /\ wireEnd = "open"
    /\ out = <<>>
    /\ faults = MaxFaults
    /\ cl = [i \in Closers |-> [pc |-> "done", ret |-> nil, won |-> FALSE]]
    /\ snd = [pc |-> "idle", op |-> 0, msg |-> <<>>, n |-> 0, ret |-> nil,
              sc0 |-> 0, o0 |-> 0, calls |-> 0]
    /\ sw = NoStream
    /\ lw = [calls |-> 0]
    /\ \E cap \in PullCaps :
         rd = [buf |-> <<>>, cap |-> cap, bufI |-> 0, bufN |-> 0, next |-> 0,
               ret |-> [payload |-> <<>>, err |-> nil], k |-> 0, op |-> "new"]
    /\ wlog = NoWrite
    /\ clog = NoClose
    /\ tlog = NoTimeout

NextPull == ReadSome \/ PullNextFrame

SpecPull == InitPull /\ [][NextPull]_vars

----------------------------------------------------------------------------
(* Properties of the pull parser, under SpecPull *)

\* the bytes of the first k frames of the peer, and what conn has delivered
RECURSIVE FrameBytes(_)
FrameBytes(k) == IF k = 0 THEN 0 ELSE FrameBytes(k - 1) + Len(PullEncode(peer[k]))
Delivered == Len(PullWire(peer)) - Len(wire)
\* the next frame exists and is not longer than the buffer
NextFits == rd.k < Len(peer) /\ Len(PullEncode(peer[rd.k + 1])) <= rd.cap

\* C34: for frames that fit in the buffer, NextFrame returns ErrUnderflow
\* exactly while the bytes buffered from the cursor are a strict prefix of
\* the next frame, and leaves these bytes as they came; with the whole frame
\* buffered it returns the payload without the mask, Opcode and IsFinal are
\* those of the frame's header, and the frames come in the order sent.
C34_PullParser ==
    rd.op = "next" =>
        /\ rd.ret.err \in {nil, ErrReserved} =>
             /\ rd.k >= 1
             /\ Delivered >= FrameBytes(rd.k)
             /\ rd.ret.payload = peer[rd.k].payload
             /\ PullOpcode(rd) = peer[rd.k].head % 16
             /\ PullIsFinal(rd) = (peer[rd.k].head >= finalFlag)
             /\ (rd.ret.err = ErrReserved) = ((peer[rd.k].head \div 16) % 8 # 0)
        /\ rd.ret.err = ErrUnderflow /\ (NextFits \/ rd.k = Len(peer)) =>
             /\ rd.k < Len(peer) => Delivered < FrameBytes(rd.k + 1)
             /\ SubSeq(rd.buf, rd.bufI + 1, rd.bufN)
                  = SubSeq(PullWire(peer), FrameBytes(rd.k) + 1, Delivered)
        /\ rd.ret.err = ErrPullOverflow => ~NextFits

\* the first frame, with a mask, was returned and the next call found a
\* strict prefix of the second frame, more than its first two bytes
C34_Witness ==
    /\ rd.op = "next" /\ rd.ret.err = ErrUnderflow /\ rd.k = 1 /\ Len(peer) = 2
    /\ peer[1].key # <<>> /\ Len(peer[1].payload) > 7
    /\ rd.bufN - rd.bufI > 2 /\ NextFits

\* C35: NextFrame does not answer ErrUnderflow when the buffer is full from
\* its start: then no ReadSome can add a byte, and a frame that does not
\* fit has to be answered with ErrOverflow, whatever its length encoding.
C35_NoStuckUnderflow ==
    ~(rd.op = "next" /\ rd.ret.err = ErrUnderflow /\ rd.bufI = 0 /\ rd.bufN = rd.cap)

----------------------------------------------------------------------------
(* A stream writer that is used again after its Close has returned.  The   *)
(* transport does not fail; closes counts the Close calls that returned.   *)

MaxCloses == 3      \* Close invocations on the stream writer in one run

(* the caller goes on to its next Write or Close on the writer *)
StreamAgain ==
    /\ sw.pc = "closed"
    /\ sw.closes < MaxCloses - 1
    /\ sw' = [sw EXCEPT !.pc = "open", !.closes = sw.closes + 1]
    /\ UNCHANGED <<c, writeMutex, wire, split, peer, wireEnd, out, faults, cl, snd, lw, rd,
                   wlog, clog, tlog>>

InitAgain ==
    /\ c = ConnInit(0)
    /\ writeMutex = "free"
    /\ peer = <<>>
    /\ wire = <<>>
    /\ split = FALSE
    /\ wireEnd = "open"
    /\ out = <<>>
    /\ faults = MaxFaults
    /\ cl = [i \in Closers |-> [pc |-> "done", ret |-> nil, won |-> FALSE]]
    /\ snd = [pc |-> "idle", op |-> 0, msg |-> <<>>, n |-> 0, ret |-> nil,
              sc0 |-> 0, o0 |-> 0, calls |-> 0]
    /\ sw = [pc |-> "none", opcode |-> 0, p |-> <<>>, n |-> 0, err |-> nil,
             frags |-> 0, closes |-> 0]
    /\ lw = [calls |-> 0]
    /\ rd = RLocals
    /\ wlog = NoWrite
    /\ clog = NoClose
    /\ tlog = NoTimeout

NextAgain ==
    \/ SendStream
    \/ StreamLock
    \/ StreamCloseLock
    \/ StreamWrite
    \/ StreamAgain

SpecAgain == InitAgain /\ [][NextAgain]_vars

----------------------------------------------------------------------------
(* Properties of the closed stream writer, under SpecAgain *)

\* C36: after Close has returned on a stream writer, a Write on it returns
\* io.ErrClosedPipe and no call puts a byte on the transport: the stream
\* has one final frame.
C36_ClosedWriter ==
    [][sw.closes >= 1 =>
          /\ out' = out
          /\ sw.pc = "open" /\ sw'.frags > sw.frags => sw'.err = Err("closedpipe")]_vars

\* C37: once a Close frame has been written to the transport nothing more
\* is written to it: no data frame and no Pong for a Ping that comes later.
C37_SilentAfterClose == [][clog.frames > 0 => out' = out]_vars

----------------------------------------------------------------------------
(* The Reads after a protocol violation, under SpecFrame *)

\* the latch after nextFrame has rejected a frame: ProtocolError for a
\* reserved bit, a missing mask and a control frame that is not final or
\* too long, CannotAccept for an opcode, TooBig for a length
ViolationLatch ==
    {ProtocolError + statusCodeSetFlag, CannotAccept + statusCodeSetFlag,
     TooBig + statusCodeSetFlag}

\* C38: a Read that is called after a Read has returned the ClosedError of
\* a protocol violation returns an error and no byte.
C38_NoDataAfterViolation ==
    rd.low /\ rd.pc = "idle" /\ rd.calls > 0 /\ rd.sc0 \in ViolationLatch =>
        /\ rd.res.err # nil
        /\ rd.res.n = 0

----------------------------------------------------------------------------
(* Send, Receive and SendClose as goroutines that are scheduled fairly, on *)
(* a transport that fails once or that is jammed: each of its calls        *)
(* returns, the writes with a temporary error.                             *)

InitLive ==
    /\ c = ConnInit(0)
    /\ writeMutex = "free"
    /\ peer \in OrderScripts
    /\ wire = Encode(peer)
    /\ split = FALSE
    /\ wireEnd = "open"
    /\ out = <<>>
    /\ faults \in {0, MaxFaults + 1}
    /\ cl = [i \in Closers |-> [pc |-> IF i = 1 THEN "start" ELSE "done",
                                ret |-> nil, won |-> FALSE]]
    /\ snd = [pc |-> "idle", op |-> 0, msg |-> <<>>, n |-> 0, ret |-> nil,
              sc0 |-> 0, o0 |-> 0, calls |-> 0]
    /\ sw = NoStream
    /\ lw = [calls |-> 0]
    /\ rd = [RLocals EXCEPT !.buf = Zeros(MaxBuf)]
    /\ wlog = NoWrite
    /\ clog = NoClose
    /\ tlog = NoTimeout

NextLive ==
    \/ SendLock
    \/ SendWrite
    \/ RecvCall
    \/ RdNet
    \/ RdPongLock
    \/ RdPongRetry
    \/ RdCloseLock
    \/ CloseCasOne
    \/ CloseLockOne

\* the steps of the goroutine in Send and of the one in SendClose
SendSteps == SendLock \/ SendWrite
CloseSteps == CloseCasOne \/ CloseLockOne

\* The Pong writer of gotCtrl holds writeMutex between two calls of
\* c.Conn.Write.  Its next call changes the state unless the transport is
\* jammed: then it writes nothing and the loop comes back as it was.
PongRetryReady == rd.pc = "pong_retry" /\ ~Jammed
PongRetried == rd.pc = "pong_retry" /\ (rd' # rd \/ faults' # faults)

\* Every goroutine that can take a step takes it in the end.  A goroutine in
\* Receive holds writeMutex only inside the Pong loop; the last two lines are
\* WF_vars(RdPongRetry) with ENABLED <<RdPongRetry>>_vars written out.
Fairness ==
    /\ WF_vars(SendSteps)
    /\ WF_vars(CloseSteps)
    /\ \/ []<>(~PongRetryReady)
       \/ []<><<PongRetried>>_vars

SpecLive == InitLive /\ [][NextLive]_vars /\ Fairness

----------------------------------------------------------------------------
(* Properties of the termination of SendClose, under SpecLive *)

\* C39: every SendClose call returns in the end, whatever Send and Receive
\* do and whatever the transport answers: a writer that holds the write
\* mutex and retries gives it up once the latch is set.
C39_SendCloseReturns == <>(cl[1].pc = "done")

\* C39, on a transport that is not jammed: every SendClose call returns in
\* the end.
C39_ReturnsUnlessJammed == ~Jammed => <>(cl[1].pc = "done")

\* C39: the write mutex changes hands through the free state only, so no
\* goroutine takes it while it is held.
C39_NoSelfLock ==
    [][writeMutex' # writeMutex => (writeMutex = "free" \/ writeMutex' = "free")]_vars

----------------------------------------------------------------------------
(* Properties of the cursors of the connection, under SpecRetry *)

\* the bytes of the frame begun last that are on the transport, as long as
\* no Close frame came after them
FrameOut == SubSeq(out, lw.o0 + 1, Len(out))
FrameLast == WireFrame(lw.head, lw.full)
PartlyWritten ==
    /\ lw.calls > 0
    /\ clog.frames = 0
    /\ 0 < Len(FrameOut)
    /\ Len(FrameOut) < Len(FrameLast)
WhollyWritten ==
    /\ lw.calls > 0
    /\ clog.frames = 0
    /\ FrameOut = FrameLast

\* readBuf [131]byte and writeBuf [127]byte with their cursors
CursorsInRange(conn) ==
    /\ 0 <= conn.readBufDone
    /\ conn.readBufDone <= conn.readBufN
    /\ conn.readBufN <= 131
    /\ conn.readPayloadN >= 0
    /\ 0 <= conn.writeBufN
    /\ conn.writeBufN <= 127
    /\ conn.writePayloadN >= 0

\* C40: the cursors stay in range, and the write cursor says that a frame
\* is pending exactly when a frame is partly on the transport: a frame of
\* which some bytes but not all are written is pending, and a frame that is
\* written whole is not.
C40_Cursors ==
    /\ CursorsInRange(c)
    /\ PartlyWritten => Pending(c)
    /\ WhollyWritten => ~Pending(c)

\* C40, the part that holds for the write cursor: it is never above the
\* size of writeBuf, the payload cursor is never negative, and a frame that
\* is written whole leaves nothing pending
C40_WriteUpper ==
    /\ c.writeBufN <= 127
    /\ c.writePayloadN >= 0
    /\ WhollyWritten => ~Pending(c)

====
